---- MODULE Spec2Model ----
(***************************************************************************)
(* The Mango margin ledger as seen by its liquidator.                      *)
(*                                                                         *)
(* Ledger side: the oracle prices, the margin accounts of one MangoGroup,  *)
(* their open-orders records on the spot markets and the liquidators'      *)
(* quote wallets.  Every transaction is applied atomically.                *)
(*                                                                         *)
(* Client side: one process per liquidator running runLiquidator and       *)
(* drainAccount.  A process position (pc) is the await it is suspended at. *)
(*                                                                         *)
(* Numbers.  Token amounts are native integers.  A "value" is              *)
(* amount * price; a ratio r is kept as r * RatioDen, so                   *)
(*   assetsVal / liabsVal >= maintCollRatio                                *)
(* is  assetsVal * RatioDen >= maintCollRatio * liabsVal.  A product with  *)
(* the decimal factors 1.01, 0.95, 1.05, 0.999 keeps its numerator, and is *)
(* rounded to a native amount where the client does (uiToNative).          *)
(***************************************************************************)
EXTENDS Integers, Sequences, FiniteSets, TLC

\* ------------------------------------------------------------- constants
NUM_TOKENS == 3
NUM_MARKETS == NUM_TOKENS - 1
Tokens == 0 .. (NUM_TOKENS - 1)
Markets == 0 .. (NUM_MARKETS - 1)
QUOTE == NUM_TOKENS - 1

\* maintCollRatio and initCollRatio are U64F64 fixed-point numbers; the
\* model keeps three decimal digits of them.
RatioDen == 1000

\* deficit * 1.01
DepositMarginNum == 101
DepositMarginDen == 100
\* prices[marketIndex] * 0.95, prices[marketIndex] * 1.05
SellPriceNum == 95
BuyPriceNum == 105
PriceDen == 100
\* getUiDeposit(...) * 0.999
WithdrawNum == 999
WithdrawDen == 1000

\* ------------------------------------------------------------- bounds
NumAccounts == 2
MaxFaults == 2
MaxPriceMoves == 1
MaxOrders == 5
MaxNative == 20
MaxSubmissions == 3

Accounts == 1 .. NumAccounts
Liqors == {"L1", "L2"}
User == "user"

\* Oracle prices of the tradable tokens: token 0 moves, token 1 is steady.
PriceVectors == { <<100, 50>>, <<400, 50>>, <<410, 50>> }

\* ------------------------------------------------------------- arithmetic
\* Math.round(num / den) for num >= 0, den > 0
RoundDiv(num, den) == (2 * num + den) \div (2 * den)

RECURSIVE SumOver(_, _)
SumOver(S, f) ==
  IF S = {} THEN 0
  ELSE LET x == CHOOSE y \in S : TRUE IN f[x] + SumOver(S \ {x}, f)

\* ------------------------------------------------------------- ledger data
\* An open-orders record of serum: the free balances and the resting orders;
\* an order locks its base (sell) or its quote (buy).
NoOpenOrders == [exists |-> FALSE, baseTokenFree |-> 0, quoteTokenFree |-> 0,
                 orders |-> {}]

LockedBase(oo) ==
  SumOver({o \in oo.orders : o.side = "sell"},
          [o \in oo.orders |-> o.lock])
LockedQuote(oo) ==
  SumOver({o \in oo.orders : o.side = "buy"},
          [o \in oo.orders |-> o.lock])
BaseTokenTotal(oo) == oo.baseTokenFree + LockedBase(oo)
QuoteTokenTotal(oo) == oo.quoteTokenFree + LockedQuote(oo)

\* The group's risk parameters and indexes (MangoGroupLayout); the indexes
\* are fixed-point numbers, here in units of 1 / IndexDen, and 1.0 on the
\* ledger of the model.
IndexDen == 4
TheGroup ==
  [maintCollRatio |-> 1100, initCollRatio |-> 1200,
   tokens |-> [i \in Tokens |-> i],
   spotMarkets |-> [m \in Markets |-> m],
   indexes |-> [i \in Tokens |-> [deposit |-> IndexDen, borrow |-> IndexDen]]]

\* What a client reads of one open-orders account: undefined when the
\* account's key for the market is the zero key, else OpenOrders.load.
Undefined ==
  [defined |-> FALSE, baseTokenFree |-> 0, quoteTokenFree |-> 0,
   baseTokenTotal |-> 0, quoteTokenTotal |-> 0]
LoadOpenOrders(oo) ==
  IF oo.exists
  THEN [defined |-> TRUE,
        baseTokenFree |-> oo.baseTokenFree, quoteTokenFree |-> oo.quoteTokenFree,
        baseTokenTotal |-> BaseTokenTotal(oo),
        quoteTokenTotal |-> QuoteTokenTotal(oo)]
  ELSE Undefined

\* ------------------------------------------------------------- valuation
\* the product of index and deposits cut off instead of rounded
GetNativeDepositFloor(mangoGroup, ma, tokenIndex) ==
  (mangoGroup.indexes[tokenIndex].deposit * ma.deposits[tokenIndex]) \div IndexDen

\* Math.round(mangoGroup.indexes[tokenIndex].deposit * this.deposits[tokenIndex])
GetNativeDeposit(mangoGroup, ma, tokenIndex) ==
  RoundDiv(mangoGroup.indexes[tokenIndex].deposit * ma.deposits[tokenIndex],
           IndexDen)
\* Math.round(mangoGroup.indexes[tokenIndex].borrow * this.borrows[tokenIndex])
GetNativeBorrow(mangoGroup, ma, tokenIndex) ==
  RoundDiv(mangoGroup.indexes[tokenIndex].borrow * ma.borrows[tokenIndex],
           IndexDen)

\* the open-orders account read without the test for undefined
GetValueUnchecked(mangoGroup, ma, prices, loaded) ==
  IF loaded /\ \E m \in Markets : ~ma.openOrdersAccounts[m].defined
  THEN [threw |-> TRUE, value |-> 0]
  ELSE [threw |-> FALSE,
        value |->
          SumOver(Tokens, [i \in Tokens |->
            (GetNativeDeposit(mangoGroup, ma, i)
             - GetNativeBorrow(mangoGroup, ma, i)) * prices[i]])
          + (IF loaded
             THEN SumOver(Markets, [m \in Markets |->
                    ma.openOrdersAccounts[m].baseTokenTotal * prices[m]
                    + ma.openOrdersAccounts[m].quoteTokenTotal])
             ELSE 0)]

\* MarginAccount.getValue: the deposits less the borrows at the prices, then,
\* when openOrdersAccounts is loaded, what every open-orders account that is
\* not undefined holds
GetValue(mangoGroup, ma, prices, loaded) ==
  LET value ==
        SumOver(Tokens, [i \in Tokens |->
          (GetNativeDeposit(mangoGroup, ma, i)
           - GetNativeBorrow(mangoGroup, ma, i)) * prices[i]])
  IN IF ~loaded THEN [threw |-> FALSE, value |-> value]
     ELSE [threw |-> FALSE,
           value |-> value
             + SumOver({m \in Markets : ma.openOrdersAccounts[m].defined},
                       [m \in Markets |->
                          ma.openOrdersAccounts[m].baseTokenTotal * prices[m]
                          + ma.openOrdersAccounts[m].quoteTokenTotal])]

\* deposits plus what the open-orders accounts hold; an open-orders account
\* that was never created contributes nothing
GetAssets(mangoGroup, ma) ==
  [i \in Tokens |->
     GetNativeDeposit(mangoGroup, ma, i)
     + (IF i = QUOTE
        THEN SumOver({m \in Markets : ma.openOrdersAccounts[m].defined},
                     [m \in Markets |-> ma.openOrdersAccounts[m].quoteTokenTotal])
        ELSE IF ma.openOrdersAccounts[i].defined
             THEN ma.openOrdersAccounts[i].baseTokenTotal ELSE 0)]

GetLiabs(mangoGroup, ma) ==
  [i \in Tokens |-> GetNativeBorrow(mangoGroup, ma, i)]

GetAssetsVal(mangoGroup, ma, prices) ==
  LET assets == GetAssets(mangoGroup, ma)
  IN SumOver(Tokens, [i \in Tokens |-> assets[i] * prices[i]])

GetLiabsVal(mangoGroup, ma, prices) ==
  LET liabs == GetLiabs(mangoGroup, ma)
  IN SumOver(Tokens, [i \in Tokens |-> liabs[i] * prices[i]])

\* oracle submissions of the tradable tokens, then 1.0 for the quote token
PricesOf(oracleNow) ==
  [i \in Tokens |-> IF i = QUOTE THEN 1 ELSE oracleNow[i + 1]]

\* ------------------------------------------------------------- state
VARIABLES
  oracle,       \* ledger: the oracle's current prices of the tradable tokens
  margin,       \* ledger: margin[a] = [owner, deposits, borrows]
  openOrders,   \* ledger: openOrders[a][m], the open-orders record
  wallet,       \* ledger: wallet[l][i], liquidator l's token account of token i
  nextOrderId,  \* ledger: the id the next placed order gets
  liquidations, \* ledger: liquidations[a], the liquidations of a that landed:
                \*   by whom since the last oracle update (now) and ever,
                \*   what the liquidators paid, what the account was credited
  active,       \* the liquidator processes that run
  proc,         \* proc[l]: position and local variables of liquidator l
  faults,       \* failures of RPC calls injected so far
  moves,        \* oracle updates so far
  client        \* the last call of the client library or of the web client
                \*   made outside the liquidator, with its arguments and
                \*   what it returned or threw

vars == <<oracle, margin, openOrders, wallet, nextOrderId, liquidations,
          active, proc, faults, moves, client>>
ledger == <<oracle, margin, openOrders, wallet, nextOrderId, liquidations>>

\* ------------------------------------------------------------- ledger reads
\* getMarginAccount: the account with its open-orders accounts loaded
GetMarginAccount(a) ==
  [publicKey |-> a,
   owner |-> margin[a].owner,
   deposits |-> margin[a].deposits,
   borrows |-> margin[a].borrows,
   openOrdersAccounts |-> [m \in Markets |-> LoadOpenOrders(openOrders[a][m])]]

\* getAllMarginAccounts: every margin account of the group
GetAllMarginAccounts == [a \in Accounts |-> GetMarginAccount(a)]

\* the collateral ratio of a as the ledger computes it is at least ratio
CollRatioAtLeast(ma, ratio) ==
  LET liabsVal == GetLiabsVal(TheGroup, ma, PricesOf(oracle))
      assetsVal == GetAssetsVal(TheGroup, ma, PricesOf(oracle))
  IN liabsVal = 0 \/ assetsVal * RatioDen >= ratio * liabsVal

\* ------------------------------------------------------------- ledger writes
\* uiToNative of a quantity kept as num / den
UiToNative(num, den) == RoundDiv(num, den)

QtyDen == RatioDen * DepositMarginDen

\* The Liquidate instruction: refused when the liqee is not below the
\* maintenance ratio, when the liquidator cannot pay, or when the deposit
\* does not lift the liqee to the initial ratio.
LiquidateAccepted(a, l, quantities) ==
  LET ma == GetMarginAccount(a)
      after == [ma EXCEPT !.deposits =
                  [i \in Tokens |-> ma.deposits[i] + quantities[i]]]
  IN /\ ~CollRatioAtLeast(ma, TheGroup.maintCollRatio)
     /\ \A i \in Tokens : wallet[l][i] >= quantities[i]
     /\ CollRatioAtLeast(after, TheGroup.initCollRatio)

\* the whole exchange: the liquidator's deposit and the transfer of the
\* account to the liquidator
LiquidateApply(a, l, quantities) ==
  /\ wallet' = [wallet EXCEPT ![l] = [i \in Tokens |-> @[i] - quantities[i]]]
  /\ margin' = [margin EXCEPT
                  ![a].deposits = [i \in Tokens |-> @[i] + quantities[i]],
                  ![a].owner = l]
  /\ liquidations' = [liquidations EXCEPT
                        ![a].now = @ \cup {l},
                        ![a].ever = @ \cup {l},
                        ![a].paid = @ + quantities[QUOTE],
                        ![a].credited = @ + quantities[QUOTE]]
  /\ UNCHANGED <<oracle, openOrders, nextOrderId>>

\* ------------------------------------------------------------- processes
\* eval: the last valuation of ma by the inner loop; divided tells whether
\* assetsVal / liabsVal was computed
NoEval == [done |-> FALSE, assetsVal |-> 0, liabsVal |-> 0, divided |-> FALSE,
           prices |-> <<>>]
NoAccount == [publicKey |-> 0]

\* executed and stale record the past of the visit of an account: the steps
\* that failed attempts of the drain had completed, and which of the account
\* snapshot and the price vector was last fetched before a timed-out write.
\* sincePrices records what has happened since prices was fetched: the
\* liquidation of an account has landed, the snapshot ma has been fetched.
\* landed tells that the ledger has applied a liquidate of this visit.
ProcInit ==
  [pc |-> "getMangoGroup",
   mangoGroup |-> TheGroup,
   marginAccounts |-> <<>>,
   prices |-> <<>>,
   scanPrices |-> <<>>,
   idx |-> 0,
   ma |-> NoAccount,
   liquidated |-> FALSE,
   eval |-> NoEval,
   depositQuantities |-> <<>>,
   evals |-> 0,
   timeouts |-> 0,
   cancelFrom |-> <<>>,
   executed |-> {},
   stale |-> {},
   sincePrices |-> {},
   landed |-> FALSE,
   books |-> <<>>,
   cancelProms |-> <<>>,
   orphans |-> {},
   netValues |-> <<>>,
   assets |-> <<>>,
   liabs |-> <<>>,
   order |-> <<>>,
   i |-> 0,
   completed |-> {}]

Off == [ProcInit EXCEPT !.pc = "off"]

Set(l, changes) == proc' = [proc EXCEPT ![l] = changes]

\* The accounts of Init: account 1 is the borrower of scenario D with a
\* resting sell order; the others are drawn from these profiles.
Zero == [i \in Tokens |-> 0]
Borrower(quote) ==
  [owner |-> User, deposits |-> [Zero EXCEPT ![QUOTE] = quote],
   borrows |-> [Zero EXCEPT ![0] = 8]]
Profiles ==
  { [owner |-> User, deposits |-> Zero, borrows |-> Zero],
    [owner |-> User, deposits |-> [Zero EXCEPT ![0] = 8], borrows |-> Zero],
    Borrower(3520),
    Borrower(1000) }
RestingSell ==
  [NoOpenOrders EXCEPT !.exists = TRUE,
     !.orders = {[id |-> 1, side |-> "sell", price |-> 60 * PriceDen,
                  size |-> 10, lock |-> 10]}]

NoLiquidation == [now |-> {}, ever |-> {}, paid |-> 0, credited |-> 0]
NoCall == [op |-> "none"]

InitLedger ==
  /\ oracle \in PriceVectors
  /\ margin \in [Accounts -> Profiles]
  /\ margin[1] = Borrower(1000)
  /\ openOrders = [a \in Accounts |-> [m \in Markets |->
                     IF a = 1 /\ m = 1 THEN RestingSell ELSE NoOpenOrders]]
  /\ wallet = [l \in Liqors |-> [Zero EXCEPT ![QUOTE] = 6000]]
  /\ liquidations = [a \in Accounts |-> NoLiquidation]
  /\ moves = 0
  /\ client = NoCall

Init ==
  /\ InitLedger
  /\ nextOrderId = 2
  /\ faults = 0
  /\ active = {"L1"}
  /\ proc = [l \in Liqors |-> IF l \in active THEN ProcInit ELSE Off]

\* ------------------------------------------------------------- environment
\* the oracle publishes new prices
OracleUpdate ==
  /\ moves < MaxPriceMoves
  /\ \E p \in PriceVectors : p # oracle /\ oracle' = p
  /\ moves' = moves + 1
  /\ liquidations' = [a \in Accounts |-> [liquidations[a] EXCEPT !.now = {}]]
  /\ UNCHANGED <<margin, openOrders, wallet, nextOrderId, active, client, proc, faults>>

\* ------------------------------------------------------------- runLiquidator
\* mangoGroup = await client.getMangoGroup(...)
GetMangoGroup(l) ==
  /\ proc[l].pc = "getMangoGroup"
  /\ Set(l, [proc[l] EXCEPT !.pc = "getAllMarginAccounts",
                            !.mangoGroup = TheGroup])
  /\ UNCHANGED <<ledger, active, client, faults, moves>>

\* const marginAccounts = await client.getAllMarginAccounts(...)
GetAllAccounts(l) ==
  /\ proc[l].pc = "getAllMarginAccounts"
  /\ Set(l, [proc[l] EXCEPT !.pc = "getPrices",
                            !.marginAccounts = GetAllMarginAccounts])
  /\ UNCHANGED <<ledger, active, client, faults, moves>>

\* let prices = await mangoGroup.getPrices(connection); the vault balances
\* read next are only logged
GetPrices(l) ==
  /\ proc[l].pc = "getPrices"
  /\ Set(l, [proc[l] EXCEPT !.pc = "forAccount", !.prices = PricesOf(oracle),
                            !.scanPrices = PricesOf(oracle), !.idx = 1,
                            !.sincePrices = {}])
  /\ UNCHANGED <<ledger, active, client, faults, moves>>

\* for (let ma of marginAccounts) { let liquidated = false ...
ForAccount(l) ==
  /\ proc[l].pc = "forAccount"
  /\ IF proc[l].idx > NumAccounts
     THEN Set(l, [proc[l] EXCEPT !.pc = "sleep", !.ma = NoAccount,
                                 !.landed = FALSE,
                                 !.eval = NoEval, !.liquidated = FALSE,
                                 !.evals = 0, !.timeouts = 0,
                                 !.executed = {}, !.stale = {},
                                 !.completed = {}])
     ELSE Set(l, [proc[l] EXCEPT !.pc = "evaluate",
                                 !.ma = proc[l].marginAccounts[proc[l].idx],
                                 !.sincePrices = @ \ {"snapshot"},
                                 !.landed = FALSE,
                                 !.liquidated = FALSE,
                                 !.eval = NoEval,
                                 !.evals = 0,
                                 !.timeouts = 0,
                                 !.executed = {}, !.stale = {},
                                 !.completed = {}])
  /\ UNCHANGED <<ledger, active, client, faults, moves>>

\* the deficit taken against the maintenance ratio
DeficitOfMaint(mangoGroup, assetsVal, liabsVal) ==
  liabsVal * mangoGroup.maintCollRatio - assetsVal * RatioDen

\* liabsVal * mangoGroup.initCollRatio - assetsVal, times RatioDen
Deficit(mangoGroup, assetsVal, liabsVal) ==
  liabsVal * mangoGroup.initCollRatio - assetsVal * RatioDen

\* [0, 0, deficit], each times QtyDen: the deficit without its margin
DepositQuantitiesNoMargin(deficit) ==
  [i \in Tokens |-> IF i = QUOTE THEN deficit * DepositMarginDen ELSE 0]

\* [0, 0, deficit * 1.01], each times QtyDen
DepositQuantities(deficit) ==
  [i \in Tokens |-> IF i = QUOTE THEN deficit * DepositMarginNum ELSE 0]

\* the check of liabsVal left out
OwesNothingNever(liabsVal) == FALSE

\* liabsVal === 0
OwesNothing(liabsVal) == liabsVal = 0

\* assetsVal / liabsVal > mangoGroup.maintCollRatio
AboveMaintStrict(mangoGroup, assetsVal, liabsVal) ==
  IF liabsVal = 0 THEN assetsVal > 0
  ELSE assetsVal * RatioDen > mangoGroup.maintCollRatio * liabsVal

\* assetsVal / liabsVal >= mangoGroup.maintCollRatio; a division by 0 gives
\* Infinity, which is above every ratio, or NaN (0 / 0), which is not
AboveMaint(mangoGroup, assetsVal, liabsVal) ==
  IF liabsVal = 0 THEN assetsVal > 0
  ELSE assetsVal * RatioDen >= mangoGroup.maintCollRatio * liabsVal

\* The body of the inner try up to the call of client.liquidate: value the
\* account, leave the loop when it owes nothing or is above the maintenance
\* ratio, else compute the deficit and call client.liquidate.
Evaluate(l) ==
  /\ proc[l].pc = "evaluate"
  /\ LET p == proc[l]
         assetsVal == GetAssetsVal(p.mangoGroup, p.ma, p.prices)
         liabsVal == GetLiabsVal(p.mangoGroup, p.ma, p.prices)
         scored == [done |-> TRUE, assetsVal |-> assetsVal,
                    liabsVal |-> liabsVal, divided |-> FALSE,
                    prices |-> p.prices]
     IN IF OwesNothing(liabsVal)
        THEN Set(l, [p EXCEPT !.pc = "ifLiquidated", !.eval = scored,
                              !.evals = @ + 1])
        ELSE IF AboveMaint(p.mangoGroup, assetsVal, liabsVal)
        THEN Set(l, [p EXCEPT !.pc = "ifLiquidated",
                              !.eval = [scored EXCEPT !.divided = TRUE],
                              !.evals = @ + 1])
        ELSE Set(l, [p EXCEPT !.pc = "liquidate",
                              !.eval = [scored EXCEPT !.divided = TRUE],
                              !.evals = @ + 1,
                              !.depositQuantities =
                                 DepositQuantities(
                                   Deficit(p.mangoGroup, assetsVal, liabsVal))])
  /\ UNCHANGED <<ledger, active, client, faults, moves>>

\* the drain loop entered whether or not the account was liquidated
IfLiquidatedAlways(l) ==
  /\ proc[l].pc = "ifLiquidated"
  /\ Set(l, [proc[l] EXCEPT !.pc = "getMarginAccount"])
  /\ UNCHANGED <<ledger, active, client, faults, moves>>

\* if (liquidated) { ... drain loop ... }, else the next account
IfLiquidated(l) ==
  /\ proc[l].pc = "ifLiquidated"
  /\ IF proc[l].liquidated
     THEN Set(l, [proc[l] EXCEPT !.pc = "getMarginAccount"])
     ELSE Set(l, [proc[l] EXCEPT !.pc = "forAccount", !.idx = @ + 1])
  /\ UNCHANGED <<ledger, active, client, faults, moves>>

\* uiToNative of the submitted quantities
NativeQuantities(quantities) ==
  [i \in Tokens |-> UiToNative(quantities[i], QtyDen)]

\* the deposit and the transfer of the account sent as two transactions, of
\* which the first has landed
LiquidateOkDepositOnly(l) ==
  /\ proc[l].pc = "liquidate"
  /\ LET a == proc[l].ma.publicKey
         q == NativeQuantities(proc[l].depositQuantities)
     IN /\ LiquidateAccepted(a, l, q)
        /\ wallet' = [wallet EXCEPT ![l] = [i \in Tokens |-> @[i] - q[i]]]
        /\ margin' = [margin EXCEPT ![a].deposits =
                                      [i \in Tokens |-> @[i] + q[i]]]
        /\ liquidations' = [liquidations EXCEPT
                              ![a].paid = @ + q[QUOTE],
                              ![a].credited = @ + q[QUOTE]]
  /\ Set(l, [proc[l] EXCEPT !.pc = "ifLiquidated", !.liquidated = TRUE,
                            !.completed = {"Liquidating"}])
  /\ UNCHANGED <<oracle, openOrders, nextOrderId, active, client, faults, moves>>

\* await client.liquidate(...) returns: the ledger applied the instruction;
\* liquidated = true; break
LiquidateOk(l) ==
  /\ proc[l].pc = "liquidate"
  /\ LET a == proc[l].ma.publicKey
         q == NativeQuantities(proc[l].depositQuantities)
     IN /\ LiquidateAccepted(a, l, q)
        /\ LiquidateApply(a, l, q)
  /\ Set(l, [proc[l] EXCEPT !.pc = "ifLiquidated", !.liquidated = TRUE,
                            !.landed = TRUE,
                            !.sincePrices = @ \cup {"liquidation"},
                            !.completed = {"Liquidating"}])
  /\ UNCHANGED <<active, client, faults, moves>>

\* the refusal swallowed and the account taken for liquidated
LiquidateRefusedSwallowed(l) ==
  /\ proc[l].pc = "liquidate"
  /\ ~LiquidateAccepted(proc[l].ma.publicKey, l,
                        NativeQuantities(proc[l].depositQuantities))
  /\ Set(l, [proc[l] EXCEPT !.pc = "ifLiquidated", !.liquidated = TRUE,
                            !.completed = {"Liquidating"}])
  /\ UNCHANGED <<ledger, active, client, faults, moves>>

\* the ledger refuses the instruction: the error carries no timeout and is
\* rethrown to the outer catch, which logs it; the cycle ends
LiquidateRefused(l) ==
  /\ proc[l].pc = "liquidate"
  /\ ~LiquidateAccepted(proc[l].ma.publicKey, l,
                        NativeQuantities(proc[l].depositQuantities))
  /\ Set(l, [proc[l] EXCEPT !.pc = "sleep"])
  /\ UNCHANGED <<ledger, active, client, faults, moves>>

\* the transaction is not confirmed in time and never lands: e.timeout
LiquidateTimeout(l) ==
  /\ proc[l].pc = "liquidate"
  /\ faults < MaxFaults
  /\ faults' = faults + 1
  /\ Set(l, [proc[l] EXCEPT !.pc = "backoff", !.timeouts = @ + 1,
                            !.stale = {"account", "prices"}])
  /\ UNCHANGED <<ledger, active, client, moves>>

\* the transaction lands but its confirmation is not seen in time: e.timeout
LiquidateTimeoutLanded(l) ==
  /\ proc[l].pc = "liquidate"
  /\ faults < MaxFaults
  /\ faults' = faults + 1
  /\ LET a == proc[l].ma.publicKey
         q == NativeQuantities(proc[l].depositQuantities)
     IN /\ LiquidateAccepted(a, l, q)
        /\ LiquidateApply(a, l, q)
  /\ Set(l, [proc[l] EXCEPT !.pc = "backoff", !.timeouts = @ + 1,
                            !.landed = TRUE,
                            !.stale = {"account", "prices"}])
  /\ UNCHANGED <<active, client, moves>>

\* catch (e) { if (!e.timeout) throw e } of the inner try: the call fails
\* for another reason than a timeout and nothing lands
LiquidateError(l) ==
  /\ proc[l].pc = "liquidate"
  /\ faults < MaxFaults
  /\ faults' = faults + 1
  /\ Set(l, [proc[l] EXCEPT !.pc = "sleep"])
  /\ UNCHANGED <<ledger, active, client, moves>>

\* the prices refreshed and the call made again with the deficit at hand
BackoffResubmit(l) ==
  /\ proc[l].pc = "backoff"
  /\ Set(l, [proc[l] EXCEPT !.pc = "liquidate", !.prices = PricesOf(oracle)])
  /\ UNCHANGED <<ledger, active, client, faults, moves>>

\* the call made again in place after the wait
BackoffInPlace(l) ==
  /\ proc[l].pc = "backoff"
  /\ Set(l, [proc[l] EXCEPT !.pc = "liquidate"])
  /\ UNCHANGED <<ledger, active, client, faults, moves>>

\* await sleep(1000); prices = await mangoGroup.getPrices(connection); the
\* inner while loop then runs its body again
Backoff(l) ==
  /\ proc[l].pc = "backoff"
  /\ Set(l, [proc[l] EXCEPT !.pc = "evaluate", !.prices = PricesOf(oracle),
                            !.sincePrices = {},
                            !.stale = @ \ {"prices"}])
  /\ UNCHANGED <<ledger, active, client, faults, moves>>

\* finally { await sleep(sleepTime) }, then the next cycle
Sleep(l) ==
  /\ proc[l].pc = "sleep"
  /\ Set(l, [ProcInit EXCEPT !.mangoGroup = proc[l].mangoGroup,
                             !.orphans = proc[l].orphans])
  /\ UNCHANGED <<ledger, active, client, faults, moves>>

\* a read of the scan fails and nothing catches the error: runLiquidator ends
ScanErrorEnds(l) ==
  /\ proc[l].pc \in {"getMangoGroup", "getAllMarginAccounts", "getPrices", "backoff"}
  /\ faults < MaxFaults
  /\ faults' = faults + 1
  /\ Set(l, [proc[l] EXCEPT !.pc = "off"])
  /\ UNCHANGED <<ledger, active, client, moves>>

\* a read of the scan fails: the outer catch logs the error
ScanError(l) ==
  /\ proc[l].pc \in {"getMangoGroup", "getAllMarginAccounts", "getPrices", "backoff"}
  /\ faults < MaxFaults
  /\ faults' = faults + 1
  /\ Set(l, [proc[l] EXCEPT !.pc = "sleep"])
  /\ UNCHANGED <<ledger, active, client, moves>>

\* ------------------------------------------------------------- venue
\* the resting orders of market m, each with the account whose open-orders
\* account holds it (market.loadBids, market.loadAsks)
LoadBook(m) ==
  UNION { {[id |-> o.id, openOrdersAddress |-> a] : o \in openOrders[a][m].orders}
          : a \in Accounts }

\* market.filterForOpenOrders(bids, asks, [the account's open-orders account])
FilterForOpenOrders(book, ma, m) ==
  IF ma.openOrdersAccounts[m].defined
  THEN {o.id : o \in {b \in book : b.openOrdersAddress = ma.publicKey}}
  ELSE {}

\* CancelOrder for each of the orders: what is still resting leaves the book
\* and its locked tokens become free; an order already gone is passed over
CancelOrders(oo, ids) ==
  LET gone == {o \in oo.orders : o.id \in ids}
      left == [oo EXCEPT !.orders = oo.orders \ gone]
  IN [left EXCEPT !.baseTokenFree = @ + LockedBase(oo) - LockedBase(left),
                  !.quoteTokenFree = @ + LockedQuote(oo) - LockedQuote(left)]

\* SettleFunds for each market of the account that has an open-orders
\* account: the free balances move into the account's deposits
SettledDeposits(a) ==
  [i \in Tokens |->
     margin[a].deposits[i]
     + (IF i = QUOTE
        THEN SumOver(Markets, [m \in Markets |-> openOrders[a][m].quoteTokenFree])
        ELSE openOrders[a][i].baseTokenFree)]

\* a settlement that opens the open-orders accounts the account lacks
SettleAllApplyOpening(a) ==
  /\ margin' = [margin EXCEPT ![a].deposits = SettledDeposits(a)]
  /\ openOrders' = [openOrders EXCEPT ![a] =
       [m \in Markets |-> [@[m] EXCEPT !.exists = TRUE,
                                      !.baseTokenFree = 0,
                                      !.quoteTokenFree = 0]]]
  /\ UNCHANGED <<oracle, wallet, nextOrderId, liquidations>>

SettleAllApply(a) ==
  /\ margin' = [margin EXCEPT ![a].deposits = SettledDeposits(a)]
  /\ openOrders' = [openOrders EXCEPT ![a] =
       [m \in Markets |-> [@[m] EXCEPT !.baseTokenFree = 0,
                                      !.quoteTokenFree = 0]]]
  /\ UNCHANGED <<oracle, wallet, nextOrderId, liquidations>>

\* what an order locks: its size of the base token when it sells, its size
\* times its price of the quote token when it buys
OrderToken(m, side) == IF side = "sell" THEN m ELSE QUOTE
OrderLock(side, priceNum, size) ==
  IF side = "sell" THEN size ELSE (size * priceNum) \div PriceDen

\* PlaceOrder: the locked tokens come out of the deposits, what the deposits
\* lack is borrowed; the open-orders account is created with the first order
AfterPlaceOrder(a, m, side, priceNum, size) ==
  LET token == OrderToken(m, side)
      lock == OrderLock(side, priceNum, size)
      have == margin[a].deposits[token]
      paid == IF have >= lock THEN lock ELSE have
  IN [margin |-> [margin EXCEPT ![a].deposits[token] = @ - paid,
                                ![a].borrows[token] = @ + (lock - paid)],
      openOrders |-> [openOrders EXCEPT ![a][m] =
         [@ EXCEPT !.exists = TRUE,
                   !.orders = @ \cup {[id |-> nextOrderId, side |-> side,
                                       price |-> priceNum,
                                       size |-> size, lock |-> lock]}]]]

\* the account as getMarginAccount would read it from ledger state st
AccountIn(st, a) ==
  [publicKey |-> a,
   owner |-> st.margin[a].owner,
   deposits |-> st.margin[a].deposits,
   borrows |-> st.margin[a].borrows,
   openOrdersAccounts |-> [m \in Markets |-> LoadOpenOrders(st.openOrders[a][m])]]

PlaceOrderAccepted(a, l, m, side, priceNum, size) ==
  LET st == AfterPlaceOrder(a, m, side, priceNum, size)
  IN /\ margin[a].owner = l
     /\ size > 0
     /\ OrderLock(side, priceNum, size) > 0
     /\ \/ st.margin[a].borrows = margin[a].borrows
        \/ CollRatioAtLeast(AccountIn(st, a), TheGroup.initCollRatio)

PlaceOrderApply(a, m, side, priceNum, size) ==
  LET st == AfterPlaceOrder(a, m, side, priceNum, size)
  IN /\ margin' = st.margin
     /\ openOrders' = st.openOrders
     /\ nextOrderId' = nextOrderId + 1
     /\ UNCHANGED <<oracle, wallet, liquidations>>

\* Withdraw: refused when the deposit is short or when the account would
\* owe and fall below the initial ratio
AfterWithdraw(a, token, quantity) ==
  [margin |-> [margin EXCEPT ![a].deposits[token] = @ - quantity],
   openOrders |-> openOrders]

WithdrawAccepted(a, l, token, quantity) ==
  /\ margin[a].owner = l
  /\ margin[a].deposits[token] >= quantity
  /\ CollRatioAtLeast(AccountIn(AfterWithdraw(a, token, quantity), a),
                      TheGroup.initCollRatio)

WithdrawApply(a, l, token, quantity) ==
  /\ margin' = AfterWithdraw(a, token, quantity).margin
  /\ wallet' = [wallet EXCEPT ![l][token] = @ + quantity]
  /\ UNCHANGED <<oracle, openOrders, nextOrderId, liquidations>>

\* ------------------------------------------------------------- drainAccount
Acct(l) == proc[l].ma.publicKey

\* the catch of the drain loop: 'Failed while draining account. Trying again
\* in 1s'.  Promises of cancels still pending are left behind; executed
\* keeps the steps that the failed attempts had completed.
Pending(p) ==
  IF p.cancelProms = <<>> THEN {}
  ELSE {[account |-> p.ma.publicKey, market |-> m,
         orders |-> p.cancelProms[m].orders] :
          m \in {x \in Markets : p.cancelProms[x].state = "pending"}}

DrainFailed(p) ==
  [p EXCEPT !.pc = "drainBackoff", !.orphans = @ \cup Pending(p),
            !.cancelProms = <<>>, !.cancelFrom = <<>>, !.books = <<>>,
            !.netValues = <<>>,
            !.assets = <<>>, !.liabs = <<>>, !.order = <<>>, !.i = 0,
            !.executed = @ \cup (p.completed \ {"Liquidating"}),
            !.completed = {"Liquidating"}]

\* ma = await client.getMarginAccount(connection, ma.publicKey, dexProgramId)
GetMarginAccountStep(l) ==
  /\ proc[l].pc = "getMarginAccount"
  /\ Set(l, [proc[l] EXCEPT !.pc = "loadBooks", !.ma = GetMarginAccount(Acct(l)),
                            !.stale = @ \ {"account"},
                            !.sincePrices = @ \cup {"snapshot"}])
  /\ UNCHANGED <<ledger, active, client, faults, moves>>

\* const books = await Promise.all(bidsPromises.concat(asksPromises))
LoadBooks(l) ==
  /\ proc[l].pc = "loadBooks"
  /\ Set(l, [proc[l] EXCEPT !.pc = "cancelAll",
                            !.books = [m \in Markets |-> LoadBook(m)]])
  /\ UNCHANGED <<ledger, active, client, faults, moves>>

\* for (let i = 0; i < NUM_MARKETS; i++) cancelProms.push(
\*   ma.cancelAllOrdersByMarket(..., markets[i], bids[i], asks[i], payer))
\* a market without orders of the account sends nothing and is fulfilled
\* at once
CancelProms(p) ==
  [m \in Markets |->
     LET orders == FilterForOpenOrders(p.books[m], p.ma, m)
     IN [state |-> IF orders = {} THEN "fulfilled" ELSE "pending",
         orders |-> orders]]

CancelAll(l) ==
  /\ proc[l].pc = "cancelAll"
  /\ Set(l, [proc[l] EXCEPT !.pc = "awaitCancels",
                            !.cancelProms = CancelProms(proc[l]),
                            !.cancelFrom = openOrders[Acct(l)]])
  /\ UNCHANGED <<ledger, active, client, faults, moves>>

\* the cancels of market m written back over the open orders read at the
\* fan-out
CancelLandedStale(l, m) ==
  /\ proc[l].pc = "awaitCancels"
  /\ proc[l].cancelProms[m].state = "pending"
  /\ margin[Acct(l)].owner = l
  /\ openOrders' = [openOrders EXCEPT ![Acct(l)] =
                      [proc[l].cancelFrom EXCEPT ![m] =
                         CancelOrders(@, proc[l].cancelProms[m].orders)]]
  /\ Set(l, [proc[l] EXCEPT !.cancelProms[m].state = "fulfilled"])
  /\ UNCHANGED <<oracle, margin, wallet, nextOrderId, liquidations,
                 active, client, faults, moves>>

\* the cancels of market m land and are confirmed
CancelLanded(l, m) ==
  /\ proc[l].pc = "awaitCancels"
  /\ proc[l].cancelProms[m].state = "pending"
  /\ margin[Acct(l)].owner = l
  /\ openOrders' = [openOrders EXCEPT ![Acct(l)][m] =
                      CancelOrders(@, proc[l].cancelProms[m].orders)]
  /\ Set(l, [proc[l] EXCEPT !.cancelProms[m].state = "fulfilled"])
  /\ UNCHANGED <<oracle, margin, wallet, nextOrderId, liquidations,
                 active, client, faults, moves>>

\* the cancels of market m fail and nothing lands: the call fails, or the
\* ledger refuses a payer who does not own the account
CancelFailed(l, m) ==
  /\ proc[l].pc = "awaitCancels"
  /\ proc[l].cancelProms[m].state = "pending"
  /\ IF margin[Acct(l)].owner # l
     THEN faults' = faults
     ELSE faults < MaxFaults /\ faults' = faults + 1
  /\ Set(l, [proc[l] EXCEPT !.cancelProms[m].state = "rejected"])
  /\ UNCHANGED <<ledger, active, client, moves>>

\* resumes as soon as one promise is fulfilled
AllCancelledAny(l) ==
  /\ proc[l].pc = "awaitCancels"
  /\ \E m \in Markets : proc[l].cancelProms[m].state = "fulfilled"
  /\ Set(l, [proc[l] EXCEPT !.pc = "settleAll",
                            !.completed = @ \cup {"CancelingOrders"}])
  /\ UNCHANGED <<ledger, active, client, faults, moves>>

\* await Promise.all(cancelProms): resumes when every promise is fulfilled
AllCancelled(l) ==
  /\ proc[l].pc = "awaitCancels"
  /\ \A m \in Markets : proc[l].cancelProms[m].state = "fulfilled"
  /\ Set(l, [proc[l] EXCEPT !.pc = "settleAll",
                            !.completed = @ \cup {"CancelingOrders"}])
  /\ UNCHANGED <<ledger, active, client, faults, moves>>

\* await Promise.all(cancelProms): throws as soon as one promise is rejected
CancelThrows(l) ==
  /\ proc[l].pc = "awaitCancels"
  /\ \E m \in Markets : proc[l].cancelProms[m].state = "rejected"
  /\ Set(l, DrainFailed(proc[l]))
  /\ UNCHANGED <<ledger, active, client, faults, moves>>

\* a cancel left behind by a failed attempt lands
OrphanLands(l) ==
  /\ \E o \in proc[l].orphans :
       /\ margin[o.account].owner = l
       /\ openOrders' = [openOrders EXCEPT ![o.account][o.market] =
                           CancelOrders(@, o.orders)]
       /\ Set(l, [proc[l] EXCEPT !.orphans = @ \ {o}])
  /\ UNCHANGED <<oracle, margin, wallet, nextOrderId, liquidations,
                 active, client, faults, moves>>

\* a cancel left behind by a failed attempt ends without effect
OrphanEnds(l) ==
  /\ \E o \in proc[l].orphans : Set(l, [proc[l] EXCEPT !.orphans = @ \ {o}])
  /\ UNCHANGED <<ledger, active, client, faults, moves>>

\* the settlement after the cancels opens the open-orders accounts the
\* account lacks
SettleAllFirstOpening(l) ==
  /\ proc[l].pc = "settleAll"
  /\ margin[Acct(l)].owner = l
  /\ SettleAllApplyOpening(Acct(l))
  /\ Set(l, [proc[l] EXCEPT !.pc = "refetch",
                            !.completed = @ \cup {"SettlingFunds"}])
  /\ UNCHANGED <<active, client, faults, moves>>

\* await client.settleAll(...) after the cancels
SettleAllFirst(l) ==
  /\ proc[l].pc = "settleAll"
  /\ margin[Acct(l)].owner = l
  /\ SettleAllApply(Acct(l))
  /\ Set(l, [proc[l] EXCEPT !.pc = "refetch",
                            !.completed = @ \cup {"SettlingFunds"}])
  /\ UNCHANGED <<active, client, faults, moves>>

\* the markets taken in the order of their index, the sort left out
SortedMarketsUnsorted(netValues) == [k \in 1 .. NUM_MARKETS |-> k - 1]

\* netValues.sort((a, b) => (b[1] - a[1])): the markets by falling net value,
\* equal net values in the order of their index
SortedMarkets(netValues) ==
  CHOOSE s \in [1 .. NUM_MARKETS -> Markets] :
    /\ \A i, j \in 1 .. NUM_MARKETS : i # j => s[i] # s[j]
    /\ \A i, j \in 1 .. NUM_MARKETS :
         i < j => \/ netValues[s[i]] > netValues[s[j]]
                  \/ netValues[s[i]] = netValues[s[j]] /\ s[i] < s[j]

NetValues(assets, liabs, prices) ==
  [m \in Markets |-> (assets[m] - liabs[m]) * prices[m]]

\* await sleep(2000); ma = await client.getMarginAccount(...); then the net
\* values are computed and sorted
Refetch(l) ==
  /\ proc[l].pc = "refetch"
  /\ LET ma == GetMarginAccount(Acct(l))
         assets == GetAssets(proc[l].mangoGroup, ma)
         liabs == GetLiabs(proc[l].mangoGroup, ma)
         netValues == NetValues(assets, liabs, proc[l].prices)
     IN Set(l, [proc[l] EXCEPT !.pc = "placeOrders", !.ma = ma,
                               !.stale = @ \ {"account"},
                               !.sincePrices = @ \cup {"snapshot"},
                               !.assets = assets, !.liabs = liabs,
                               !.netValues = netValues,
                               !.order = SortedMarkets(netValues),
                               !.i = 1])
  /\ UNCHANGED <<ledger, active, client, faults, moves>>

\* the order of the loop's turn i: none for a net value of 0
OrderSide(p) ==
  LET net == p.netValues[p.order[p.i]]
  IN IF net > 0 THEN "sell" ELSE IF net < 0 THEN "buy" ELSE "none"
\* the oracle's price taken as the limit, without the 5 % of room
OrderPriceAtOracle(p) == p.prices[p.order[p.i]] * PriceDen

\* prices[marketIndex] * 0.95 or * 1.05, times PriceDen
OrderPrice(p) ==
  p.prices[p.order[p.i]]
    * (IF OrderSide(p) = "sell" THEN SellPriceNum ELSE BuyPriceNum)
OrderSize(p) ==
  IF OrderSide(p) = "sell" THEN p.assets[p.order[p.i]] ELSE p.liabs[p.order[p.i]]

\* the loop over the sorted markets is over
PlacedAll(l) ==
  /\ proc[l].pc = "placeOrders"
  /\ proc[l].i > NUM_MARKETS
  /\ Set(l, [proc[l] EXCEPT !.pc = "settleAllAgain"])
  /\ UNCHANGED <<ledger, active, client, faults, moves>>

\* a market of net value 0 gets no order
PlaceNone(l) ==
  /\ proc[l].pc = "placeOrders"
  /\ proc[l].i <= NUM_MARKETS
  /\ OrderSide(proc[l]) = "none"
  /\ Set(l, [proc[l] EXCEPT !.i = @ + 1])
  /\ UNCHANGED <<ledger, active, client, faults, moves>>

\* await client.placeOrder(..., 'sell' or 'buy', price, size, 'limit')
PlaceOrderOk(l) ==
  /\ proc[l].pc = "placeOrders"
  /\ proc[l].i <= NUM_MARKETS
  /\ OrderSide(proc[l]) # "none"
  /\ nextOrderId <= MaxOrders
  /\ LET p == proc[l]
     IN /\ PlaceOrderAccepted(Acct(l), l, p.order[p.i], OrderSide(p),
                              OrderPrice(p), OrderSize(p))
        /\ PlaceOrderApply(Acct(l), p.order[p.i], OrderSide(p),
                           OrderPrice(p), OrderSize(p))
  /\ Set(l, [proc[l] EXCEPT !.i = @ + 1])
  /\ UNCHANGED <<active, client, faults, moves>>

\* await client.settleAll(...) after the orders
SettleAllAgain(l) ==
  /\ proc[l].pc = "settleAllAgain"
  /\ margin[Acct(l)].owner = l
  /\ SettleAllApply(Acct(l))
  /\ Set(l, [proc[l] EXCEPT !.pc = "refetchAgain",
                            !.completed = @ \cup {"Rebalancing"}])
  /\ UNCHANGED <<active, client, faults, moves>>

\* ma = await client.getMarginAccount(...)
RefetchAgain(l) ==
  /\ proc[l].pc = "refetchAgain"
  /\ Set(l, [proc[l] EXCEPT !.pc = "withdraw", !.ma = GetMarginAccount(Acct(l)),
                            !.stale = @ \ {"account"},
                            !.sincePrices = @ \cup {"snapshot"}])
  /\ UNCHANGED <<ledger, active, client, faults, moves>>

\* the whole deposit withdrawn, nothing kept back for rounding
WithdrawQuantityAll(p) == GetNativeDeposit(p.mangoGroup, p.ma, QUOTE)

\* uiToNative(ma.getUiDeposit(mangoGroup, NUM_TOKENS-1) * 0.999)
WithdrawQuantity(p) ==
  UiToNative(GetNativeDeposit(p.mangoGroup, p.ma, QUOTE) * WithdrawNum,
             WithdrawDen)

\* await client.withdraw(...) returns; drainAccount returns; 'Account drain
\* success'; the for loop goes to the next account
WithdrawOk(l) ==
  /\ proc[l].pc = "withdraw"
  /\ WithdrawAccepted(Acct(l), l, QUOTE, WithdrawQuantity(proc[l]))
  /\ WithdrawApply(Acct(l), l, QUOTE, WithdrawQuantity(proc[l]))
  /\ Set(l, [proc[l] EXCEPT !.pc = "forAccount", !.idx = @ + 1,
                            !.completed = @ \cup {"WithdrawingSurplus"},
                            !.cancelProms = <<>>, !.cancelFrom = <<>>,
                            !.books = <<>>,
                            !.netValues = <<>>, !.assets = <<>>,
                            !.liabs = <<>>, !.order = <<>>, !.i = 0])
  /\ UNCHANGED <<active, client, faults, moves>>

\* the transaction the drain of l is at would be refused by the ledger
DrainStepRefused(l) ==
  \/ /\ proc[l].pc \in {"settleAll", "settleAllAgain"}
     /\ margin[Acct(l)].owner # l
  \/ /\ proc[l].pc = "placeOrders"
     /\ proc[l].i <= NUM_MARKETS
     /\ OrderSide(proc[l]) # "none"
     /\ LET p == proc[l]
        IN ~PlaceOrderAccepted(Acct(l), l, p.order[p.i], OrderSide(p),
                               OrderPrice(p), OrderSize(p))
  \/ /\ proc[l].pc = "withdraw"
     /\ ~WithdrawAccepted(Acct(l), l, QUOTE, WithdrawQuantity(proc[l]))

\* the ledger refuses a transaction of the drain
DrainRefused(l) ==
  /\ DrainStepRefused(l)
  /\ Set(l, DrainFailed(proc[l]))
  /\ UNCHANGED <<ledger, active, client, faults, moves>>

\* a call of the drain fails and nothing lands
DrainError(l) ==
  /\ \/ proc[l].pc \in {"getMarginAccount", "loadBooks", "settleAll", "refetch",
                        "settleAllAgain", "refetchAgain", "withdraw"}
     \/ /\ proc[l].pc = "placeOrders"
        /\ proc[l].i <= NUM_MARKETS
        /\ OrderSide(proc[l]) # "none"
  /\ faults < MaxFaults
  /\ faults' = faults + 1
  /\ Set(l, DrainFailed(proc[l]))
  /\ UNCHANGED <<ledger, active, client, moves>>

\* a transaction of the drain lands but its confirmation is not seen in
\* time: the call fails though the ledger has applied it
DrainTimeoutLanded(l) ==
  /\ faults < MaxFaults
  /\ faults' = faults + 1
  /\ \/ /\ proc[l].pc \in {"settleAll", "settleAllAgain"}
        /\ margin[Acct(l)].owner = l
        /\ SettleAllApply(Acct(l))
     \/ /\ proc[l].pc = "placeOrders"
        /\ proc[l].i <= NUM_MARKETS
        /\ OrderSide(proc[l]) # "none"
        /\ nextOrderId <= MaxOrders
        /\ LET p == proc[l]
           IN /\ PlaceOrderAccepted(Acct(l), l, p.order[p.i], OrderSide(p),
                                    OrderPrice(p), OrderSize(p))
              /\ PlaceOrderApply(Acct(l), p.order[p.i], OrderSide(p),
                                 OrderPrice(p), OrderSize(p))
     \/ /\ proc[l].pc = "withdraw"
        /\ WithdrawAccepted(Acct(l), l, QUOTE, WithdrawQuantity(proc[l]))
        /\ WithdrawApply(Acct(l), l, QUOTE, WithdrawQuantity(proc[l]))
  /\ Set(l, [DrainFailed(proc[l]) EXCEPT !.stale = {"account", "prices"}])
  /\ UNCHANGED <<active, client, moves>>

\* the retry goes on with the orders, the cancels and the settlement skipped
DrainBackoffResume(l) ==
  /\ proc[l].pc = "drainBackoff"
  /\ Set(l, [proc[l] EXCEPT !.pc = "refetch"])
  /\ UNCHANGED <<ledger, active, client, faults, moves>>

\* console.log('Failed while draining account. Trying again in 1s');
\* await sleep(1000)
DrainBackoff(l) ==
  /\ proc[l].pc = "drainBackoff"
  /\ Set(l, [proc[l] EXCEPT !.pc = "getMarginAccount"])
  /\ UNCHANGED <<ledger, active, client, faults, moves>>

\* where the next thing a coordinator does is to send a writing request
WritePcs ==
  {"liquidate", "cancelAll", "settleAll", "placeOrders", "settleAllAgain",
   "withdraw"}

\* ------------------------------------------------------------- behaviours
Next ==
  \/ OracleUpdate
  \/ \E l \in Liqors :
       \/ GetMangoGroup(l) \/ GetAllAccounts(l) \/ GetPrices(l)
       \/ ForAccount(l) \/ Evaluate(l) \/ IfLiquidated(l)
       \/ LiquidateOk(l) \/ LiquidateRefused(l) \/ LiquidateTimeout(l)
       \/ LiquidateTimeoutLanded(l) \/ LiquidateError(l)
       \/ Backoff(l) \/ Sleep(l) \/ ScanError(l)
       \/ GetMarginAccountStep(l) \/ LoadBooks(l) \/ CancelAll(l)
       \/ \E m \in Markets : CancelLanded(l, m) \/ CancelFailed(l, m)
       \/ AllCancelled(l) \/ CancelThrows(l) \/ OrphanLands(l) \/ OrphanEnds(l)
       \/ SettleAllFirst(l) \/ Refetch(l)
       \/ PlacedAll(l) \/ PlaceNone(l) \/ PlaceOrderOk(l)
       \/ SettleAllAgain(l) \/ RefetchAgain(l) \/ WithdrawOk(l)
       \/ DrainRefused(l) \/ DrainError(l) \/ DrainTimeoutLanded(l)
       \/ DrainBackoff(l)

Spec == Init /\ [][Next]_vars

\* two liquidators work on the same group, in which one request has failed
\* and on whose markets orders have been placed before
InitRace ==
  /\ InitLedger
  /\ nextOrderId = MaxOrders - 1
  /\ faults = MaxFaults - 1
  /\ oracle = <<400, 50>>
  /\ \A a \in Accounts \ {1} : margin[a] = Borrower(3520)
  /\ active = Liqors
  /\ proc = [l \in Liqors |-> ProcInit]

SpecRace == InitRace /\ [][Next]_vars

\* the timer of the sleep fires and the reads of the scan return
ScanFairness ==
  \A l \in Liqors :
    WF_vars(Sleep(l) \/ GetMangoGroup(l) \/ GetAllAccounts(l) \/ GetPrices(l))

SpecFair == Init /\ [][Next]_vars /\ ScanFairness

\* a step of coordinator l: every call it awaits returns or throws
Runs(l) ==
  \/ GetMangoGroup(l) \/ GetAllAccounts(l) \/ GetPrices(l)
  \/ ForAccount(l) \/ Evaluate(l) \/ IfLiquidated(l)
  \/ LiquidateOk(l) \/ LiquidateRefused(l) \/ LiquidateTimeout(l)
  \/ LiquidateTimeoutLanded(l) \/ LiquidateError(l)
  \/ Backoff(l) \/ Sleep(l) \/ ScanError(l)
  \/ GetMarginAccountStep(l) \/ LoadBooks(l) \/ CancelAll(l)
  \/ \E m \in Markets : CancelLanded(l, m) \/ CancelFailed(l, m)
  \/ AllCancelled(l) \/ CancelThrows(l)
  \/ SettleAllFirst(l) \/ Refetch(l)
  \/ PlacedAll(l) \/ PlaceNone(l) \/ PlaceOrderOk(l)
  \/ SettleAllAgain(l) \/ RefetchAgain(l) \/ WithdrawOk(l)
  \/ DrainRefused(l) \/ DrainError(l) \/ DrainTimeoutLanded(l)
  \/ DrainBackoff(l)

\* a running coordinator never stops for good: the event loop goes on with
\* it whenever the call it awaits has returned or thrown
SpecLive == Init /\ [][Next]_vars /\ \A l \in Liqors : WF_vars(Runs(l))

\* ------------------------------------------------------------- client calls
\* Fractions in lowest terms stand for the numbers of the client:
\* [num, den] with den > 0.
RECURSIVE GCD(_, _)
GCD(m, n) == IF n = 0 THEN m ELSE GCD(n, m % n)
Abs(n) == IF n < 0 THEN 0 - n ELSE n
Rat(n, d) ==
  LET g == GCD(Abs(n), d)
  IN [num |-> n \div g, den |-> d \div g]
RatAdd(x, y) == Rat(x.num * y.den + y.num * x.den, x.den * y.den)
RatSub(x, y) == Rat(x.num * y.den - y.num * x.den, x.den * y.den)
RatMul(x, y) == Rat(x.num * y.num, x.den * y.den)
RatDiv(x, y) ==
  IF y.num > 0 THEN Rat(x.num * y.den, x.den * y.num)
  ELSE Rat(0 - x.num * y.den, 0 - x.den * y.num)
RatGt(x, y) == x.num * y.den > y.num * x.den
RatEq(x, y) == x.num * y.den = y.num * x.den

optimalUtil == Rat(7, 10)
optimalInterest == Rat(10, 100)
maxInterest == Rat(1, 1)

\* the slope below the kink used at every utilization
CalculateInterestNoKink(nativeTotalDeposits, nativeTotalBorrows) ==
  IF nativeTotalDeposits < nativeTotalBorrows \/ nativeTotalDeposits = 0
  THEN maxInterest
  ELSE RatMul(RatDiv(optimalInterest, optimalUtil),
              Rat(nativeTotalBorrows, nativeTotalDeposits))

\* no interest where nothing is deposited
CalculateInterestEmptyFree(nativeTotalDeposits, nativeTotalBorrows) ==
  IF nativeTotalDeposits = 0 THEN Rat(0, 1)
  ELSE CalculateInterestNoKink(nativeTotalDeposits, nativeTotalBorrows)

\* above the kink only the rise since the kink, without the interest at it
CalculateInterestFromZero(nativeTotalDeposits, nativeTotalBorrows) ==
  IF nativeTotalDeposits < nativeTotalBorrows \/ nativeTotalDeposits = 0
  THEN maxInterest
  ELSE LET utilization == Rat(nativeTotalBorrows, nativeTotalDeposits)
       IN IF RatGt(utilization, optimalUtil)
          THEN RatMul(RatDiv(RatSub(maxInterest, optimalInterest),
                             RatSub(Rat(1, 1), optimalUtil)),
                      RatSub(utilization, optimalUtil))
          ELSE RatMul(RatDiv(optimalInterest, optimalUtil), utilization)

\* function calculateInterest(nativeTotalDeposits, nativeTotalBorrows)
CalculateInterest(nativeTotalDeposits, nativeTotalBorrows) ==
  IF nativeTotalDeposits < nativeTotalBorrows \/ nativeTotalDeposits = 0
  THEN maxInterest
  ELSE LET utilization == Rat(nativeTotalBorrows, nativeTotalDeposits)
       IN IF RatGt(utilization, optimalUtil)
          THEN LET extraUtil == RatSub(utilization, optimalUtil)
                   slope == RatDiv(RatSub(maxInterest, optimalInterest),
                                   RatSub(Rat(1, 1), optimalUtil))
               IN RatAdd(optimalInterest, RatMul(slope, extraUtil))
          ELSE LET slope == RatDiv(optimalInterest, optimalUtil)
               IN RatMul(slope, utilization)

\* the web client shows the interest of a token whose vault states are given
CalculateInterestCall ==
  /\ client.op = "none"
  /\ \E d, b \in 0 .. MaxNative :
       client' = [op |-> "calculateInterest",
                  nativeTotalDeposits |-> d, nativeTotalBorrows |-> b,
                  returned |-> CalculateInterest(d, b)]
  /\ UNCHANGED <<ledger, active, proc, faults, moves>>

\* the values an index takes in the calls: 1.0 to 2.0 in steps of 1/IndexDen
IndexValues == IndexDen .. 2 * IndexDen

\* the group read with the given index for the deposits and the borrows
GroupWithIndex(index) ==
  [TheGroup EXCEPT !.indexes =
     [i \in Tokens |-> [deposit |-> index, borrow |-> index]]]

\* ma.getNativeDeposit(mangoGroup, tokenIndex) of an account that holds
\* shares of the quote token
GetNativeDepositCall ==
  /\ client.op = "none"
  /\ \E index \in IndexValues, shares \in 0 .. MaxNative :
       client' = [op |-> "getNativeDeposit", index |-> index, shares |-> shares,
                  returned |->
                    GetNativeDeposit(GroupWithIndex(index),
                                     [deposits |-> [Zero EXCEPT ![QUOTE] = shares],
                                      borrows |-> Zero], QUOTE)]
  /\ UNCHANGED <<ledger, active, proc, faults, moves>>

\* ma.getNativeBorrow(mangoGroup, tokenIndex)
GetNativeBorrowCall ==
  /\ client.op = "none"
  /\ \E index \in IndexValues, shares \in 0 .. MaxNative :
       client' = [op |-> "getNativeBorrow", index |-> index, shares |-> shares,
                  returned |->
                    GetNativeBorrow(GroupWithIndex(index),
                                    [deposits |-> Zero,
                                     borrows |-> [Zero EXCEPT ![QUOTE] = shares]],
                                    QUOTE)]
  /\ UNCHANGED <<ledger, active, proc, faults, moves>>

\* ma.getValue(connection, mangoGroup) of an account of the ledger, with its
\* open-orders accounts loaded before or not
GetValueCall ==
  /\ client.op = "none"
  /\ \E a \in Accounts, index \in IndexValues, loaded \in BOOLEAN :
       client' = [op |-> "getValue", account |-> a, index |-> index,
                  loaded |-> loaded,
                  returned |-> GetValue(GroupWithIndex(index), GetMarginAccount(a),
                                        PricesOf(oracle), loaded)]
  /\ UNCHANGED <<ledger, active, proc, faults, moves>>

\* A number of the client or JavaScript's undefined.
Num(v) == [kind |-> "number", value |-> v]
UndefinedValue == [kind |-> "undefined", value |-> 0]

\* values.sort((a, b) => a - b)
RECURSIVE SortAscending(_)
SortAscending(values) ==
  IF values = <<>> THEN <<>>
  ELSE LET least == CHOOSE i \in 1 .. Len(values) :
                      \A j \in 1 .. Len(values) : values[i] <= values[j]
       IN <<values[least]>>
          \o SortAscending([k \in 1 .. Len(values) - 1 |->
                              IF k < least THEN values[k] ELSE values[k + 1]])

\* getMedian(submissions), the values as decoded.  i = len / 2 is not a whole
\* number for an odd len, and values[i] is then undefined.
GetMedian(submissions) ==
  LET values == SortAscending(SelectSeq(submissions, LAMBDA v : v # 0))
      len == Len(values)
  IN IF len = 0 THEN Num(0)
     ELSE IF len = 1 THEN Num(values[1])
     ELSE IF len % 2 = 0
          THEN Num((values[len \div 2 + 1] + values[len \div 2]) \div 2)
          ELSE UndefinedValue

\* the submissions an aggregator account holds from oracles whose key is not
\* zero, as stored: in hundredths, all of them even numbers of units so that
\* the mean of two is whole
SubmissionsRaw == {0, 200, 400}
RECURSIVE SeqsUpTo(_, _)
SeqsUpTo(S, n) ==
  IF n = 0 THEN {<<>>}
  ELSE LET shorter == SeqsUpTo(S, n - 1)
       IN shorter \cup {Append(q, x) : q \in shorter, x \in S}
Aggregators == SeqsUpTo(SubmissionsRaw, MaxSubmissions)

\* decodeAggregatorInfo(accountInfo).submissionValue:
\* submission.value = submission.value / 100.0, then the median
DecodeAggregatorInfo(aggregator) ==
  GetMedian([k \in 1 .. Len(aggregator) |-> aggregator[k] \div 100])

\* MangoGroup.getPrices: oracleAccs.map((oa) =>
\*   decodeAggregatorInfo(oa.accountInfo).submissionValue).concat(1.0)
GetPricesOf(oracleAccs) ==
  [i \in Tokens |->
     IF i = QUOTE THEN Num(1) ELSE DecodeAggregatorInfo(oracleAccs[i])]

\* mangoGroup.getPrices(connection) with the aggregator accounts as given
GetPricesCall ==
  /\ client.op = "none"
  /\ \E oracleAccs \in [Markets -> Aggregators] :
       client' = [op |-> "getPrices", oracleAccs |-> oracleAccs,
                  returned |-> GetPricesOf(oracleAccs)]
  /\ UNCHANGED <<ledger, active, proc, faults, moves>>

\* ------------------------------------------------- client calls that send
\* Public keys of mints and markets: those of the group are their indexes,
\* and there is one more of each that the group does not have.
OtherMint == NUM_TOKENS
Mints == Tokens \cup {OtherMint}
OtherMarket == NUM_MARKETS
MarketKeys == Markets \cup {OtherMarket}

Throws(message) == [threw |-> message]
Returns(value) == [threw |-> "none", value |-> value]

\* the first index whose key equals the one looked up
FirstIndex(keys, key) ==
  CHOOSE i \in DOMAIN keys :
    keys[i] = key /\ \A j \in DOMAIN keys : keys[j] = key => i <= j

GetTokenIndexOrQuote(mangoGroup, token) ==
  IF \E i \in DOMAIN mangoGroup.tokens : mangoGroup.tokens[i] = token
  THEN Returns(FirstIndex(mangoGroup.tokens, token))
  ELSE Returns(QUOTE)

GetTokenIndex(mangoGroup, token) ==
  IF \E i \in DOMAIN mangoGroup.tokens : mangoGroup.tokens[i] = token
  THEN Returns(FirstIndex(mangoGroup.tokens, token))
  ELSE Throws("This token does not belong in this MangoGroup")

GetMarketIndex(mangoGroup, spotMarket) ==
  IF \E i \in DOMAIN mangoGroup.spotMarkets :
       mangoGroup.spotMarkets[i] = spotMarket
  THEN Returns(FirstIndex(mangoGroup.spotMarkets, spotMarket))
  ELSE Throws("This Market does not belong to this MangoGroup")

\* Quantities are passed as numbers; the model passes them in halves of a
\* native unit, so that uiToNative has something to round.
UiDen == 2
Quantities == {3, 16}

\* The venue's lots: a size is rounded to native units and then cut down to
\* whole base lots, a price is rounded to the nearest price lot.
BaseLotSize == 4
QuoteLotSize == 2
TruncDiv(n, d) == IF n >= 0 THEN n \div d ELSE 0 - ((0 - n) \div d)
BaseSizeNumberToLots(size) == TruncDiv(UiToNative(size, UiDen), BaseLotSize)
PriceNumberToLots(priceNum) ==
  RoundDiv(priceNum * BaseLotSize, PriceDen * QuoteLotSize)
\* what an order of so many lots is on the ledger
LotsToPriceNum(limitPrice) == (limitPrice * PriceDen * QuoteLotSize) \div BaseLotSize
LotsToSize(maxQuantity) == maxQuantity * BaseLotSize

\* sizes in halves of a native unit, prices in hundredths
OrderSizes == {0 - 8, 0, 6, 16}
OrderPrices == {0 - 100, 0, 20, 9500}

CheckLotsBelowZero(limitPrice, maxQuantity) ==
  IF maxQuantity < 0 THEN "size too small"
  ELSE IF limitPrice < 0 THEN "invalid price"
  ELSE "none"

\* if (maxQuantity.lte(new BN(0))) throw ...; if (limitPrice.lte(new BN(0)))
\* throw ...
CheckLots(limitPrice, maxQuantity) ==
  IF maxQuantity <= 0 THEN "size too small"
  ELSE IF limitPrice <= 0 THEN "invalid price"
  ELSE "none"

\* the result of a call that threw before it made a Transaction
Thrown(op, a, key, message) ==
  [op |-> op, account |-> a, key |-> key, threw |-> message,
   built |-> FALSE, sent |-> FALSE, confirmed |-> FALSE]
\* the result of a call that sent its transaction
Sent(op, a, key, confirmed) ==
  [op |-> op, account |-> a, key |-> key, threw |-> "none",
   built |-> TRUE, sent |-> TRUE, confirmed |-> confirmed]

\* The instructions on the ledger.  The owner's own token accounts are not
\* part of the state: a deposit comes from outside and a withdrawal leaves.
DepositApply(a, tokenIndex, quantity) ==
  /\ margin' = [margin EXCEPT ![a].deposits[tokenIndex] = @ + quantity]
  /\ UNCHANGED <<oracle, openOrders, wallet, nextOrderId, liquidations>>

AfterBorrow(a, tokenIndex, quantity) ==
  [margin |-> [margin EXCEPT ![a].deposits[tokenIndex] = @ + quantity,
                             ![a].borrows[tokenIndex] = @ + quantity],
   openOrders |-> openOrders]

BorrowAccepted(a, l, tokenIndex, quantity) ==
  /\ margin[a].owner = l
  /\ CollRatioAtLeast(AccountIn(AfterBorrow(a, tokenIndex, quantity), a),
                      TheGroup.initCollRatio)

SettleBorrowQuantity(a, tokenIndex, quantity) ==
  LET owed == margin[a].borrows[tokenIndex]
      have == margin[a].deposits[tokenIndex]
      least == IF owed <= have THEN owed ELSE have
  IN IF quantity <= least THEN quantity ELSE least

SettleBorrowApply(a, tokenIndex, quantity) ==
  LET settled == SettleBorrowQuantity(a, tokenIndex, quantity)
  IN /\ margin' = [margin EXCEPT ![a].deposits[tokenIndex] = @ - settled,
                                 ![a].borrows[tokenIndex] = @ - settled]
     /\ UNCHANGED <<oracle, openOrders, wallet, nextOrderId, liquidations>>

SettleFundsApply(a, marketIndex) ==
  LET oo == openOrders[a][marketIndex]
  IN /\ margin' = [margin EXCEPT
                     ![a].deposits[marketIndex] = @ + oo.baseTokenFree,
                     ![a].deposits[QUOTE] = @ + oo.quoteTokenFree]
     /\ openOrders' = [openOrders EXCEPT
                         ![a][marketIndex].baseTokenFree = 0,
                         ![a][marketIndex].quoteTokenFree = 0]
     /\ UNCHANGED <<oracle, wallet, nextOrderId, liquidations>>

\* client.deposit(..., marginAccount, owner, token, tokenAcc, quantity)
DepositCall ==
  /\ client.op = "none"
  /\ \E a \in Accounts, token \in Mints, quantity \in Quantities :
       LET tokenIndex == GetTokenIndex(TheGroup, token)
           nativeQuantity == UiToNative(quantity, UiDen)
       IN IF tokenIndex.threw # "none"
          THEN /\ client' = Thrown("deposit", a, token, tokenIndex.threw)
               /\ UNCHANGED ledger
          ELSE /\ client' = Sent("deposit", a, token, TRUE)
               /\ DepositApply(a, tokenIndex.value, nativeQuantity)
  /\ UNCHANGED <<active, proc, faults, moves>>

\* client.withdraw(..., marginAccount, owner, token, tokenAcc, quantity)
WithdrawCall ==
  /\ client.op = "none"
  /\ \E a \in Accounts, token \in Mints, quantity \in Quantities :
       LET tokenIndex == GetTokenIndex(TheGroup, token)
           nativeQuantity == UiToNative(quantity, UiDen)
       IN IF tokenIndex.threw # "none"
          THEN /\ client' = Thrown("withdraw", a, token, tokenIndex.threw)
               /\ UNCHANGED ledger
          ELSE IF WithdrawAccepted(a, User, tokenIndex.value, nativeQuantity)
          THEN /\ client' = Sent("withdraw", a, token, TRUE)
               /\ margin' = AfterWithdraw(a, tokenIndex.value,
                                          nativeQuantity).margin
               /\ UNCHANGED <<oracle, openOrders, wallet, nextOrderId,
                              liquidations>>
          ELSE /\ client' = Sent("withdraw", a, token, FALSE)
               /\ UNCHANGED ledger
  /\ UNCHANGED <<active, proc, faults, moves>>

\* client.borrow(..., marginAccount, owner, token, quantity)
BorrowCall ==
  /\ client.op = "none"
  /\ \E a \in Accounts, token \in Mints, quantity \in Quantities :
       LET tokenIndex == GetTokenIndex(TheGroup, token)
           nativeQuantity == UiToNative(quantity, UiDen)
       IN IF tokenIndex.threw # "none"
          THEN /\ client' = Thrown("borrow", a, token, tokenIndex.threw)
               /\ UNCHANGED ledger
          ELSE IF BorrowAccepted(a, User, tokenIndex.value, nativeQuantity)
          THEN /\ client' = Sent("borrow", a, token, TRUE)
               /\ margin' = AfterBorrow(a, tokenIndex.value,
                                        nativeQuantity).margin
               /\ UNCHANGED <<oracle, openOrders, wallet, nextOrderId,
                              liquidations>>
          ELSE /\ client' = Sent("borrow", a, token, FALSE)
               /\ UNCHANGED ledger
  /\ UNCHANGED <<active, proc, faults, moves>>

\* client.settleBorrow(..., marginAccount, owner, token, quantity)
SettleBorrowCall ==
  /\ client.op = "none"
  /\ \E a \in Accounts, token \in Mints, quantity \in Quantities :
       LET tokenIndex == GetTokenIndex(TheGroup, token)
           nativeQuantity == UiToNative(quantity, UiDen)
       IN IF tokenIndex.threw # "none"
          THEN /\ client' = Thrown("settleBorrow", a, token, tokenIndex.threw)
               /\ UNCHANGED ledger
          ELSE /\ client' = Sent("settleBorrow", a, token, TRUE)
               /\ SettleBorrowApply(a, tokenIndex.value, nativeQuantity)
  /\ UNCHANGED <<active, proc, faults, moves>>

\* client.settleFunds(..., marginAccount, owner, spotMarket)
SettleFundsCall ==
  /\ client.op = "none"
  /\ \E a \in Accounts, spotMarket \in MarketKeys :
       LET marketIndex == GetMarketIndex(TheGroup, spotMarket)
       IN IF marketIndex.threw # "none"
          THEN /\ client' = Thrown("settleFunds", a, spotMarket,
                                   marketIndex.threw)
               /\ UNCHANGED ledger
          ELSE IF openOrders[a][marketIndex.value].exists
          THEN /\ client' = Sent("settleFunds", a, spotMarket, TRUE)
               /\ SettleFundsApply(a, marketIndex.value)
          ELSE /\ client' = Sent("settleFunds", a, spotMarket, FALSE)
               /\ UNCHANGED ledger
  /\ UNCHANGED <<active, proc, faults, moves>>

\* The keys of open-orders accounts: the zero key where the margin account
\* has none for the market, the key of the account it has, and the key of
\* an account made for this transaction.
zeroKey == [kind |-> "zero", account |-> 0, market |-> 0]
OpenOrdersKey(ma, m) ==
  IF ma.openOrdersAccounts[m].defined
  THEN [kind |-> "openOrders", account |-> ma.publicKey, market |-> m]
  ELSE zeroKey
NewKey(ma, m) == [kind |-> "new", account |-> ma.publicKey, market |-> m]

NoTransaction == [instructions |-> <<>>, creates |-> {}, openOrdersKeys |-> <<>>]

\* an open-orders account made for every market that has none
PlaceOrderTransactionAllMarkets(marginAccount, marketIndex) ==
  LET missing == {i \in Markets : OpenOrdersKey(marginAccount, i) = zeroKey}
  IN [instructions |->
        [k \in 1 .. Cardinality(missing) |-> "createAccount"] \o <<"PlaceOrder">>,
      creates |-> missing,
      openOrdersKeys |->
        [i \in Markets |-> IF i \in missing THEN NewKey(marginAccount, i)
                           ELSE OpenOrdersKey(marginAccount, i)]]

\* for (let i = 0; i < marginAccount.openOrders.length; i++) { if (i ===
\* marketIndex && marginAccount.openOrders[marketIndex].equals(zeroKey)) {
\* ... transaction.add(accInstr.instruction) ... } else { openOrdersKeys.push(
\* marginAccount.openOrders[i]) } }; transaction.add(placeOrderInstruction)
PlaceOrderTransaction(marginAccount, marketIndex) ==
  LET missing == OpenOrdersKey(marginAccount, marketIndex) = zeroKey
  IN [instructions |-> IF missing THEN <<"createAccount", "PlaceOrder">>
                       ELSE <<"PlaceOrder">>,
      creates |-> IF missing THEN {marketIndex} ELSE {},
      openOrdersKeys |->
        [i \in Markets |-> IF i = marketIndex /\ missing
                           THEN NewKey(marginAccount, i)
                           ELSE OpenOrdersKey(marginAccount, i)]]

\* The transaction on the ledger, all of it or nothing: the accounts of its
\* createAccount instructions and the order, which needs an open-orders
\* account for its market.
TransactionAccepted(a, l, marketIndex, tx, side, priceNum, size) ==
  /\ nextOrderId <= MaxOrders
  /\ tx.openOrdersKeys[marketIndex] # zeroKey
  /\ PlaceOrderAccepted(a, l, marketIndex, side, priceNum, size)

TransactionApply(a, marketIndex, tx, side, priceNum, size) ==
  LET st == AfterPlaceOrder(a, marketIndex, side, priceNum, size)
  IN /\ margin' = st.margin
     /\ openOrders' = [st.openOrders EXCEPT ![a] =
          [m \in Markets |->
             [@[m] EXCEPT !.exists = @ \/ m \in tx.creates]]]
     /\ nextOrderId' = nextOrderId + 1
     /\ UNCHANGED <<oracle, wallet, liquidations>>

\* client.placeOrder(..., marginAccount, spotMarket, owner, side, price,
\* size): the lots are checked first, then the market is looked up, then the
\* transaction is made (with the instruction that creates the open-orders
\* account where the margin account has none for the market) and sent.
PlaceOrderCall ==
  /\ client.op = "none"
  /\ \E a \in Accounts, spotMarket \in MarketKeys, side \in {"buy", "sell"},
        price \in OrderPrices, size \in OrderSizes :
       LET marginAccount == GetMarginAccount(a)
           limitPrice == PriceNumberToLots(price)
           maxQuantity == BaseSizeNumberToLots(size)
           lots == CheckLots(limitPrice, maxQuantity)
           marketIndex == GetMarketIndex(TheGroup, spotMarket)
           tx == PlaceOrderTransaction(marginAccount, marketIndex.value)
           call == [side |-> side, price |-> price, size |-> size,
                    limitPrice |-> limitPrice, maxQuantity |-> maxQuantity,
                    hadOpenOrders |->
                      IF spotMarket \in Markets
                      THEN openOrders[a][spotMarket].exists ELSE FALSE]
       IN IF lots # "none"
          THEN /\ client' = Thrown("placeOrder", a, spotMarket, lots)
                              @@ call @@ NoTransaction
               /\ UNCHANGED ledger
          ELSE IF marketIndex.threw # "none"
          THEN /\ client' = Thrown("placeOrder", a, spotMarket,
                                   marketIndex.threw) @@ call @@ NoTransaction
               /\ UNCHANGED ledger
          ELSE IF TransactionAccepted(a, User, marketIndex.value, tx, side,
                                      LotsToPriceNum(limitPrice),
                                      LotsToSize(maxQuantity))
          THEN /\ client' = Sent("placeOrder", a, spotMarket, TRUE)
                              @@ call @@ tx
               /\ TransactionApply(a, marketIndex.value, tx, side,
                                   LotsToPriceNum(limitPrice),
                                   LotsToSize(maxQuantity))
          ELSE /\ client' = Sent("placeOrder", a, spotMarket, FALSE)
                              @@ call @@ tx
               /\ UNCHANGED ledger
  /\ UNCHANGED <<active, proc, faults, moves>>

\* The quantity drainAccount asks client.withdraw for: ma.getUiDeposit(
\* mangoGroup, NUM_TOKENS-1) * 0.999, for an account of so many deposit
\* shares of the quote token re-fetched in the drain and the group as fetched
\* at the start of the scan cycle, while the ledger's index has grown to
\* ledgerIndex or stayed.
WithdrawQuantityCall ==
  /\ client.op = "none"
  /\ \E scanIndex \in IndexValues, ledgerIndex \in IndexValues,
        shares \in 0 .. MaxNative :
       /\ scanIndex <= ledgerIndex
       /\ client' =
            [op |-> "withdrawQuantity", scanIndex |-> scanIndex,
             ledgerIndex |-> ledgerIndex, shares |-> shares,
             requested |->
               WithdrawQuantity(
                 [mangoGroup |-> GroupWithIndex(scanIndex),
                  ma |-> [deposits |-> [Zero EXCEPT ![QUOTE] = shares]]])]
  /\ UNCHANGED <<ledger, active, proc, faults, moves>>

\* The decision of the inner loop of runLiquidator and the quantities it
\* passes to client.liquidate, for given values of an account and given
\* ratios of the group (maintCollRatio <= initCollRatio).
CollRatios == {1000, 1100, 1200}
DecideCall ==
  /\ client.op = "none"
  /\ \E assetsVal \in 0 .. MaxNative, liabsVal \in 0 .. MaxNative,
        maint \in CollRatios, init \in CollRatios :
       /\ maint <= init
       /\ LET mangoGroup == [TheGroup EXCEPT !.maintCollRatio = maint,
                                             !.initCollRatio = init]
              liquidate == /\ ~OwesNothing(liabsVal)
                           /\ ~AboveMaint(mangoGroup, assetsVal, liabsVal)
          IN client' =
               [op |-> "decide", assetsVal |-> assetsVal,
                liabsVal |-> liabsVal, mangoGroup |-> mangoGroup,
                liquidate |-> liquidate,
                depositQuantities |->
                  IF liquidate
                  THEN DepositQuantities(Deficit(mangoGroup, assetsVal, liabsVal))
                  ELSE Zero]
  /\ UNCHANGED <<ledger, active, proc, faults, moves>>

\* the caller has taken the result; the next call can be made.  A
\* session is followed up to its first confirmed transaction.
ClientReturns ==
  /\ client.op # "none"
  /\ ~("confirmed" \in DOMAIN client /\ client.confirmed)
  /\ client' = NoCall
  /\ UNCHANGED <<ledger, active, proc, faults, moves>>

NextClient ==
  \/ CalculateInterestCall
  \/ GetNativeDepositCall
  \/ GetNativeBorrowCall
  \/ GetValueCall
  \/ GetPricesCall
  \/ DepositCall
  \/ WithdrawCall
  \/ BorrowCall
  \/ SettleBorrowCall
  \/ SettleFundsCall
  \/ PlaceOrderCall
  \/ WithdrawQuantityCall
  \/ DecideCall
  \/ ClientReturns

\* calls of the client made while no liquidator runs
InitClient ==
  /\ InitLedger
  /\ nextOrderId = 2
  /\ faults = 0
  /\ active = {}
  /\ proc = [l \in Liqors |-> Off]

SpecClient == InitClient /\ [][NextClient]_vars

\* ------------------------------------------------------------- properties
\* where a coordinator has a writing request of the drain in flight or to send
DrainPcs ==
  {"getMarginAccount", "loadBooks", "cancelAll", "awaitCancels", "settleAll",
   "refetch", "placeOrders", "settleAllAgain", "refetchAgain", "withdraw",
   "drainBackoff"}
ActingPcs == {"liquidate"} \cup DrainPcs

\* C1: an account whose computed ratio assetsVal / liabsVal is at or above
\* the maintenance ratio gets no liquidate, cancel, settle, place-order or
\* withdraw from the coordinator: whoever acts on an account has scored it
\* strictly below the maintenance ratio.
C1_HealthyAccountsUntouched ==
  \A l \in Liqors :
    proc[l].pc \in ActingPcs =>
      /\ proc[l].eval.done
      /\ proc[l].eval.liabsVal # 0
      /\ proc[l].eval.assetsVal * RatioDen
           < proc[l].mangoGroup.maintCollRatio * proc[l].eval.liabsVal

\* an account scored exactly at the maintenance ratio has been passed over
C1_Witness ==
  \E l \in Liqors :
    /\ proc[l].pc = "forAccount"
    /\ proc[l].eval.done
    /\ proc[l].eval.liabsVal > 0
    /\ proc[l].eval.assetsVal * RatioDen
         = proc[l].mangoGroup.maintCollRatio * proc[l].eval.liabsVal
    /\ ~proc[l].liquidated

\* C2: for an account whose liabilities are valued 0 the ratio is not
\* computed (no division), the account is not taken for liquidatable and the
\* coordinator acts on it in no way.
C2_ZeroLiabilitiesSkipped ==
  \A l \in Liqors :
    proc[l].eval.done /\ proc[l].eval.liabsVal = 0 =>
      /\ ~proc[l].eval.divided
      /\ ~proc[l].liquidated
      /\ proc[l].pc \notin ActingPcs

\* an account that owes nothing and owns nothing (0 / 0) has been passed over
C2_Witness ==
  \E l \in Liqors :
    /\ proc[l].pc = "forAccount"
    /\ proc[l].eval.done
    /\ proc[l].eval.liabsVal = 0
    /\ proc[l].eval.assetsVal = 0

StepOf(p) ==
  IF p.pc = "liquidate" THEN "Liquidating"
  ELSE IF p.pc \in {"getMarginAccount", "loadBooks", "cancelAll",
                     "awaitCancels", "drainBackoff"} THEN "CancelingOrders"
  ELSE IF p.pc = "settleAll" THEN "SettlingFunds"
  ELSE IF p.pc \in {"refetch", "placeOrders", "settleAllAgain"} THEN "Rebalancing"
  ELSE IF p.pc \in {"refetchAgain", "withdraw"} THEN "WithdrawingSurplus"
  ELSE "Scanning"
StepsBefore(step) ==
  IF step = "CancelingOrders" THEN {"Liquidating"}
  ELSE IF step = "SettlingFunds" THEN {"Liquidating", "CancelingOrders"}
  ELSE IF step = "Rebalancing"
    THEN {"Liquidating", "CancelingOrders", "SettlingFunds"}
  ELSE IF step = "WithdrawingSurplus"
    THEN {"Liquidating", "CancelingOrders", "SettlingFunds", "Rebalancing"}
  ELSE {}

\* C5: the steps on a liquidatable account come in the order Liquidating,
\* CancelingOrders, SettlingFunds, Rebalancing, WithdrawingSurplus: a step is
\* begun only when every step before it has completed with success.
C5_StepsInOrder ==
  \A l \in Liqors : StepsBefore(StepOf(proc[l])) \subseteq proc[l].completed

\* the withdrawal is reached, all the steps before it done
C5_Witness ==
  \E l \in Liqors :
    /\ proc[l].pc = "withdraw"
    /\ proc[l].completed
         = {"Liquidating", "CancelingOrders", "SettlingFunds", "Rebalancing"}

\* the cancels a coordinator has in flight for the account it drains
CancelsInFlight(l) ==
  Pending(proc[l]) \cup {o \in proc[l].orphans : o.account = Acct(l)}

\* C6: a settlement of an account is sent only when the cancel-all of every
\* market of the account has completed: no settle is sent while any cancel
\* for the account is in flight, those left behind by an earlier attempt to
\* drain included.
C6_NoSettleWhileAnyCancelInFlight ==
  \A l \in Liqors :
    proc[l].pc \in {"settleAll", "settleAllAgain"} => CancelsInFlight(l) = {}

\* What holds of one attempt to drain: its settlements are sent only when the
\* cancel-all of every market, as sent by that attempt, has completed.
SettleAfterOwnCancels ==
  \A l \in Liqors :
    proc[l].pc \in {"settleAll", "settleAllAgain"} =>
      /\ proc[l].cancelProms # <<>>
      /\ \A m \in Markets : proc[l].cancelProms[m].state = "fulfilled"

\* a settlement is about to be sent after cancels that had orders to cancel
C6_OwnCancelsWitness ==
  \E l \in Liqors :
    /\ proc[l].pc = "settleAll"
    /\ \E m \in Markets : proc[l].cancelProms[m].orders # {}

\* the cancels of the markets applied one after the other in a given order
RECURSIVE CancelInOrder(_, _, _)
CancelInOrder(oo, proms, order) ==
  IF order = <<>> THEN oo
  ELSE CancelInOrder([oo EXCEPT ![Head(order)] =
                        CancelOrders(@, proms[Head(order)].orders)],
                     proms, Tail(order))
MarketOrders ==
  {s \in [1 .. NUM_MARKETS -> Markets] :
     \A i, j \in 1 .. NUM_MARKETS : i # j => s[i] # s[j]}

C8_DepositQuantities ==
  \A l \in Liqors :
    proc[l].pc = "liquidate" =>
      /\ \A i \in Tokens \ {QUOTE} : proc[l].depositQuantities[i] = 0
      /\ proc[l].depositQuantities[QUOTE]
           = (proc[l].eval.liabsVal * proc[l].mangoGroup.initCollRatio
                - proc[l].eval.assetsVal * RatioDen) * DepositMarginNum
      /\ proc[l].eval.assetsVal * RatioDen
           < proc[l].mangoGroup.maintCollRatio * proc[l].eval.liabsVal

\* a liquidate is sent with a positive quote quantity
C8_Witness ==
  \E l \in Liqors :
    /\ proc[l].pc = "liquidate"
    /\ proc[l].timeouts = 0
    /\ proc[l].depositQuantities[QUOTE] > 0

\* C9: a liquidate is only ever sent with the deficit of the prices the
\* coordinator holds: after a refresh of the prices the values, the check
\* against the maintenance ratio and the deficit are those of the new prices.
C9_DeficitOfCurrentPrices ==
  \A l \in Liqors :
    proc[l].pc = "liquidate" =>
      LET p == proc[l]
          assetsVal == GetAssetsVal(p.mangoGroup, p.ma, p.prices)
          liabsVal == GetLiabsVal(p.mangoGroup, p.ma, p.prices)
      IN /\ p.eval.prices = p.prices
         /\ ~AboveMaint(p.mangoGroup, assetsVal, liabsVal)
         /\ p.depositQuantities
              = DepositQuantities(Deficit(p.mangoGroup, assetsVal, liabsVal))

\* a liquidate is sent again after a timeout and a refresh that brought other
\* prices than those of the scan
C9_Witness ==
  \E l \in Liqors :
    /\ proc[l].pc = "liquidate"
    /\ proc[l].timeouts > 0
    /\ proc[l].prices # proc[l].scanPrices

C11_OtherAccountsStillEvaluated ==
  [][\A l \in Liqors :
       proc[l].pc = "liquidate" /\ proc'[l].pc = "sleep" =>
         proc[l].idx = NumAccounts]_vars

C13_RefusedDrainAbandoned ==
  [][\A l \in Liqors :
       /\ DrainStepRefused(l)
       /\ proc'[l].pc # proc[l].pc
       /\ faults' = faults
       => proc'[l].pc = "forAccount"]_vars

C15_RetryOnFreshState ==
  \A l \in Liqors : proc[l].pc \in WritePcs => proc[l].stale = {}

\* C16: an account valued below a collateral ratio of 1 (its assets are worth
\* less than its liabilities) is not handled as the accounts between 1 and
\* the maintenance ratio are: the ordinary call of liquidate is never made
\* for it.
C16_InsolventHandledApart ==
  \A l \in Liqors :
    proc[l].pc = "liquidate" => proc[l].eval.assetsVal >= proc[l].eval.liabsVal

\* where a coordinator is in the loop over the sorted markets or has left it
RebalancingPcs == {"placeOrders", "settleAllAgain"}

\* the orders that the account visited by l has on market m
OrdersOn(l, m) == openOrders[Acct(l)][m].orders

\* C17: in rebalancing the net value of every tradable asset is
\* (assets - liabilities) * price, the markets are taken once each in the
\* order of falling net value, an order reaches the venue only for a market
\* the loop has passed and in the order of the loop, and so every sell of a
\* net-long position is placed before every buy of a net-short position.
C17_DescendingNetValue ==
  \A l \in Liqors :
    proc[l].pc \in RebalancingPcs =>
      LET p == proc[l]
          assets == GetAssets(p.mangoGroup, p.ma)
          liabs == GetLiabs(p.mangoGroup, p.ma)
      IN /\ \A m \in Markets :
              p.netValues[m] = (assets[m] - liabs[m]) * p.prices[m]
         /\ DOMAIN p.order = 1 .. NUM_MARKETS
         /\ \A m \in Markets :
              Cardinality({k \in 1 .. NUM_MARKETS : p.order[k] = m}) = 1
         /\ \A j, k \in 1 .. NUM_MARKETS :
              j < k => p.netValues[p.order[j]] >= p.netValues[p.order[k]]
         /\ \A k \in 1 .. NUM_MARKETS :
              k >= p.i => OrdersOn(l, p.order[k]) = {}
         /\ \A j, k \in 1 .. NUM_MARKETS :
              j < k => \A o1 \in OrdersOn(l, p.order[j]),
                          o2 \in OrdersOn(l, p.order[k]) : o1.id < o2.id
         /\ \A m1, m2 \in Markets :
              \A o1 \in OrdersOn(l, m1), o2 \in OrdersOn(l, m2) :
                o1.side = "sell" /\ o2.side = "buy" => o1.id < o2.id

\* the loop has placed a sell and then a buy, on markets whose order by
\* index is the reverse of their order by net value
C17_Witness ==
  \E l \in Liqors :
    /\ proc[l].pc = "settleAllAgain"
    /\ proc[l].order[1] > proc[l].order[2]
    /\ \E o1 \in OrdersOn(l, proc[l].order[1]) : o1.side = "sell"
    /\ \E o2 \in OrdersOn(l, proc[l].order[2]) : o2.side = "buy"

\* C18: for every market the loop of rebalancing has passed, the account has
\* exactly one order on it: a sell at 0.95 times the price of the
\* coordinator's vector for the whole of the asset when the net value is
\* positive, a buy at 1.05 times the price for the whole of the liability
\* when it is negative; and no order when the net value is 0.
C18_OneOrderPerPosition ==
  \A l \in Liqors :
    proc[l].pc \in RebalancingPcs =>
      LET p == proc[l]
          assets == GetAssets(p.mangoGroup, p.ma)
          liabs == GetLiabs(p.mangoGroup, p.ma)
      IN \A k \in 1 .. NUM_MARKETS :
           k < p.i =>
             LET m == p.order[k]
                 net == (assets[m] - liabs[m]) * p.prices[m]
             IN IF net > 0
                THEN \E o \in OrdersOn(l, m) :
                       /\ OrdersOn(l, m) = {o}
                       /\ o.side = "sell"
                       /\ o.price * 100 = p.prices[m] * 95 * PriceDen
                       /\ o.size = assets[m]
                ELSE IF net < 0
                THEN \E o \in OrdersOn(l, m) :
                       /\ OrdersOn(l, m) = {o}
                       /\ o.side = "buy"
                       /\ o.price * 100 = p.prices[m] * 105 * PriceDen
                       /\ o.size = liabs[m]
                ELSE OrdersOn(l, m) = {}

\* the loop is over for an account with a net-long and a net-short position
\* and both orders rest on the venue
C18_Witness ==
  \E l \in Liqors :
    /\ proc[l].pc = "settleAllAgain"
    /\ \E m \in Markets : \E o \in OrdersOn(l, m) :
         o.side = "sell" /\ o.size > 0 /\ proc[l].netValues[m] > 0
    /\ \E m \in Markets : \E o \in OrdersOn(l, m) :
         o.side = "buy" /\ o.size > 0 /\ proc[l].netValues[m] < 0

\* the loop has passed a market of net value 0
C18_NoOrderWitness ==
  \E l \in Liqors :
    /\ proc[l].pc = "settleAllAgain"
    /\ \E m \in Markets : proc[l].netValues[m] = 0 /\ OrdersOn(l, m) = {}

\* C19: a liquidator's wallet receives tokens only by the withdrawal of the
\* drain, which is made only after the settlement that follows the orders and
\* from the account as fetched after it; the withdrawal moves the quote token
\* only, from the account's deposits to the liquidator's quote wallet, and
\* its amount is 0.999 times the quote deposit of the fetched account.
C19_WithdrawAfterRebalancing ==
  [][\A l \in Liqors :
       (\E i \in Tokens : wallet'[l][i] > wallet[l][i]) =>
         LET p == proc[l]
             a == Acct(l)
             amount == RoundDiv(p.ma.deposits[QUOTE] * 999, 1000)
         IN /\ p.pc = "withdraw"
            /\ {"SettlingFunds", "Rebalancing"} \subseteq p.completed
            /\ p.ma.deposits = margin[a].deposits
            /\ \A i \in Tokens \ {QUOTE} : wallet'[l][i] = wallet[l][i]
            /\ wallet'[l][QUOTE] = wallet[l][QUOTE] + amount
            /\ margin'[a].deposits =
                 [margin[a].deposits EXCEPT ![QUOTE] = @ - amount]
            /\ margin'[a].borrows = margin[a].borrows
            /\ \A b \in Accounts \ {a} : margin'[b] = margin[b]
            /\ openOrders' = openOrders]_vars

\* a drain has ended with its withdrawal, which has left the thousandth of a
\* positive deposit behind
C19_Witness ==
  \E l \in Liqors :
    /\ "WithdrawingSurplus" \in proc[l].completed
    /\ margin[Acct(l)].deposits[QUOTE] > 0
    /\ wallet[l][QUOTE] > 0

\* the account has no open order and nothing to settle
Quiet(a) ==
  \A m \in Markets :
    /\ openOrders[a][m].orders = {}
    /\ openOrders[a][m].baseTokenFree = 0
    /\ openOrders[a][m].quoteTokenFree = 0

\* where the drain of a coordinator cancels or settles for the first time
CancelSettlePcs == {"cancelAll", "awaitCancels", "settleAll"}

C21_PricesRefreshedPerDecision ==
  \A l \in Liqors :
    proc[l].pc = "evaluate" => "liquidation" \notin proc[l].sincePrices

\* where a coordinator values the snapshot ma with prices, or has valued it
\* so for the orders it places
ValuationPcs == {"evaluate"} \cup RebalancingPcs

\* C22: every valuation of an account, for the decision to liquidate and for
\* the net values of rebalancing alike, uses prices fetched after the
\* snapshot of the account that is valued.
C22_PricesAfterSnapshot ==
  \A l \in Liqors :
    proc[l].pc \in ValuationPcs => "snapshot" \notin proc[l].sincePrices

\* C22, the part the code keeps: the decision to liquidate values a snapshot
\* of the scan with prices fetched after it
C22_EvaluationPricesAfterSnapshot ==
  \A l \in Liqors :
    proc[l].pc = "evaluate" => "snapshot" \notin proc[l].sincePrices

C24_InsolventWitness ==
  /\ client.op = "calculateInterest"
  /\ 0 < client.nativeTotalDeposits
  /\ client.nativeTotalDeposits < client.nativeTotalBorrows

\* the integer nearest to x / IndexDen, the half rounded up
Nearest(r, x) ==
  /\ 2 * (IndexDen * r - x) <= IndexDen
  /\ 2 * (x - IndexDen * r) < IndexDen

HalfUp(x) == (2 * x + IndexDen) \div (2 * IndexDen)

C27_AbsentOpenOrdersCountZero ==
  client.op = "getValue" =>
    LET a == client.account
        g == GroupWithIndex(client.index)
        ma == GetMarginAccount(a)
        prices == PricesOf(oracle)
        tokensValue ==
          SumOver(Tokens, [i \in Tokens |->
            (GetNativeDeposit(g, ma, i) - GetNativeBorrow(g, ma, i)) * prices[i]])
        held == {m \in Markets : openOrders[a][m].exists}
    IN /\ ~client.returned.threw
       /\ \A m \in Markets \ held : ~ma.openOrdersAccounts[m].defined
       /\ client.returned.value =
            tokensValue
            + (IF client.loaded
               THEN SumOver(held, [m \in Markets |->
                      BaseTokenTotal(openOrders[a][m]) * prices[m]
                      + QuoteTokenTotal(openOrders[a][m])])
               ELSE 0)

\* the value of an account that has traded on one market and never on the
\* other, with its open-orders accounts loaded
C27_Witness ==
  /\ client.op = "getValue"
  /\ client.loaded
  /\ \E m \in Markets : openOrders[client.account][m].exists
  /\ \E m \in Markets : ~openOrders[client.account][m].exists
  /\ ~client.returned.threw

\* the aggregator holds no submission other than 0
NoSubmission(aggregator) ==
  \A k \in 1 .. Len(aggregator) : aggregator[k] = 0

\* C28: getPrices never puts a number in the place of a price that is
\* missing: for a token whose aggregator has no submission other than 0 the
\* vector it returns holds no number.
C28_MissingPriceNotDefaulted ==
  client.op = "getPrices" =>
    \A m \in Markets :
      NoSubmission(client.oracleAccs[m]) =>
        client.returned[m].kind # "number"


\* C29: a placeOrder call whose size converts to 0 or fewer base lots throws
\* 'size too small', and one whose size is enough but whose price converts
\* to 0 or fewer price lots throws 'invalid price'; in either case no
\* transaction is sent, no open-orders account is created and the ledger is
\* as it was.
C29_BadLotsRejected ==
  [][(client.op = "none" /\ client'.op = "placeOrder") =>
       LET maxQuantity == BaseSizeNumberToLots(client'.size)
           limitPrice == PriceNumberToLots(client'.price)
       IN /\ maxQuantity <= 0 => client'.threw = "size too small"
          /\ (maxQuantity > 0 /\ limitPrice <= 0) =>
               client'.threw = "invalid price"
          /\ (maxQuantity <= 0 \/ limitPrice <= 0) =>
               /\ ~client'.sent
               /\ openOrders' = openOrders
               /\ ledger' = ledger]_vars

\* a price that rounds to no price lot was refused on a market where the
\* account has no open-orders account, and it still has none
C29_Witness ==
  /\ client.op = "placeOrder"
  /\ client.threw = "invalid price"
  /\ client.price > 0
  /\ client.key \in Markets
  /\ ~client.hadOpenOrders
  /\ ~openOrders[client.account][client.key].exists

\* a size that is cut down to no base lot was refused
C29_SizeWitness ==
  /\ client.op = "placeOrder"
  /\ client.threw = "size too small"
  /\ client.size > 0
  /\ client.key \in Markets
  /\ ~openOrders[client.account][client.key].exists

TokenCalls == {"deposit", "withdraw", "borrow", "settleBorrow"}
MarketCalls == {"placeOrder", "settleFunds"}

\* C30: deposit, withdraw, borrow and settleBorrow for a mint that the group
\* does not have, and placeOrder and settleFunds for a market that the
\* group does not have, throw before a transaction is made or sent, and the
\* ledger is as it was.
C30_UnknownKeyFailsBeforeBuild ==
  [][(/\ client.op = "none"
      /\ \/ client'.op \in TokenCalls /\ client'.key \notin Tokens
         \/ client'.op \in MarketCalls /\ client'.key \notin Markets) =>
       /\ client'.threw # "none"
       /\ ~client'.built
       /\ ~client'.sent
       /\ ledger' = ledger]_vars

\* a deposit of a mint that the group does not have has thrown
C30_Witness ==
  /\ client.op = "deposit"
  /\ client.key = OtherMint
  /\ client.threw = "This token does not belong in this MangoGroup"

\* a settleFunds on a market that the group does not have has thrown
C30_MarketWitness ==
  /\ client.op = "settleFunds"
  /\ client.key = OtherMarket
  /\ client.threw = "This Market does not belong to this MangoGroup"


\* the account holds nothing of a tradable token, owes nothing and has no
\* resting order
Flat(a) ==
  LET ma == GetMarginAccount(a)
  IN /\ \A m \in Markets : GetAssets(TheGroup, ma)[m] = 0
     /\ \A i \in Tokens : GetLiabs(TheGroup, ma)[i] = 0
     /\ \A m \in Markets : openOrders[a][m].orders = {}

\* C31: when the withdraw of a drain has returned (the drain is complete),
\* the drained account holds a zero balance of every tradable token, owes
\* nothing of any token and has no resting order on any market.
C31_DrainedAccountFlat ==
  [][\A l \in Liqors :
       (/\ proc[l].pc = "withdraw"
        /\ "WithdrawingSurplus" \in proc'[l].completed) => Flat(Acct(l))']_vars


\* C32: a placeOrder call that sends its transaction puts an instruction
\* creating an open-orders account into it exactly when the margin
\* account's key for the order's market is the zero key, and in the same
\* transaction as the order; the keys of the other markets are passed as
\* they are, and on the ledger an open-orders account appears for the
\* order's market only, and only together with the order.
C32_OpenOrdersCreatedLazily ==
  [][(client.op = "none" /\ client'.op = "placeOrder" /\ client'.sent) =>
       LET a == client'.account
           m == client'.key
           ma == GetMarginAccount(a)
           others == Markets \ {m}
       IN /\ client'.creates = (IF OpenOrdersKey(ma, m) = zeroKey
                                THEN {m} ELSE {})
          /\ client'.instructions[Len(client'.instructions)] = "PlaceOrder"
          /\ Len(client'.instructions) = 1 + Cardinality(client'.creates)
          /\ \A i \in others :
               /\ client'.openOrdersKeys[i] = OpenOrdersKey(ma, i)
               /\ openOrders'[a][i] = openOrders[a][i]
          /\ IF client'.confirmed
             THEN /\ openOrders'[a][m].exists
                  /\ Cardinality(openOrders'[a][m].orders)
                       = Cardinality(openOrders[a][m].orders) + 1
             ELSE openOrders' = openOrders]_vars

\* an order was placed on a market where the account had no open-orders
\* account, while it has none on the other market either
C32_Witness ==
  /\ client.op = "placeOrder"
  /\ client.confirmed
  /\ ~client.hadOpenOrders
  /\ client.creates = {client.key}
  /\ openOrders[client.account][client.key].exists
  /\ \E i \in Markets \ {client.key} : ~openOrders[client.account][i].exists

\* an order was placed on a market where the account had an open-orders
\* account: nothing was created
C32_ExistingWitness ==
  /\ client.op = "placeOrder"
  /\ client.confirmed
  /\ client.hadOpenOrders
  /\ client.creates = {}


\* the k-th smallest of the values
KthSmallest(values, k) ==
  CHOOSE v \in {values[i] : i \in DOMAIN values} :
    /\ Cardinality({i \in DOMAIN values : values[i] < v}) < k
    /\ k <= Cardinality({i \in DOMAIN values : values[i] <= v})

\* the statistical median of a non-empty list of values
Median(values) ==
  LET len == Len(values)
  IN IF len % 2 = 1 THEN KthSmallest(values, (len + 1) \div 2)
     ELSE (KthSmallest(values, len \div 2)
           + KthSmallest(values, len \div 2 + 1)) \div 2

\* the non-zero values an aggregator account decodes to
NonZeroValues(aggregator) ==
  SelectSeq([k \in 1 .. Len(aggregator) |-> aggregator[k] \div 100],
            LAMBDA v : v # 0)

\* C33: for every list of submissions with at least one non-zero value,
\* getMedian returns the statistical median of the non-zero values: the
\* value itself for one value, the middle one of the sorted values for an
\* odd count, the mean of the two middle ones for an even count.
C33_MedianOfNonZeroValues ==
  client.op = "getPrices" =>
    \A m \in Markets :
      LET values == NonZeroValues(client.oracleAccs[m])
      IN Len(values) >= 1 => client.returned[m] = Num(Median(values))

\* getMedian returns the median for one value and for an even count of
\* values
C33_MedianOfOneOrEvenCount ==
  client.op = "getPrices" =>
    \A m \in Markets :
      LET values == NonZeroValues(client.oracleAccs[m])
      IN (Len(values) = 1 \/ (Len(values) >= 2 /\ Len(values) % 2 = 0)) =>
           client.returned[m] = Num(Median(values))


\* C34: once the ledger has applied a liquidate that coordinator l sent for
\* an account, l eventually runs the drain on that account, also when the
\* call was reported to it as timed out.
C34_AppliedLiquidationDrained ==
  \A l \in Liqors : \A a \in Accounts :
    (proc[l].landed /\ Acct(l) = a) ~> (proc[l].pc \in DrainPcs /\ Acct(l) = a)


\* C35: a coordinator is in the drain of an account only after its own
\* liquidate call for that account has returned in the same visit of the
\* scan cycle (the ledger had applied it and no error was thrown); a
\* liquidate call that throws leaves liquidated false and leads to the
\* backoff or to the end of the cycle, never into the drain.
C35_DrainOnlyAfterLiquidateReturned ==
  /\ [](\A l \in Liqors :
          proc[l].pc \in DrainPcs =>
            /\ proc[l].liquidated
            /\ proc[l].landed
            /\ "Liquidating" \in proc[l].completed
            /\ l \in liquidations[Acct(l)].ever)
  /\ [][\A l \in Liqors :
          /\ (proc[l].pc \notin DrainPcs /\ proc'[l].pc \in DrainPcs) =>
               (proc[l].pc = "ifLiquidated" /\ proc[l].liquidated)
          /\ (~proc[l].liquidated /\ proc'[l].liquidated) =>
               /\ proc[l].pc = "liquidate"
               /\ faults' = faults
               /\ margin'[Acct(l)].owner = l
          /\ (proc[l].pc = "liquidate" /\ proc'[l].pc # "ifLiquidated") =>
               /\ ~proc'[l].liquidated
               /\ proc'[l].pc \in {"liquidate", "backoff", "sleep"}]_vars

\* a drain runs after a first liquidate call had timed out and a later one
\* has returned
C35_Witness ==
  \E l \in Liqors :
    /\ proc[l].pc \in DrainPcs
    /\ proc[l].timeouts >= 1
    /\ proc[l].liquidated


\* C36: the quantity of the quote token that the drain asks to withdraw is
\* never more than the account's native deposit of the quote token on the
\* ledger (its shares times the ledger's deposit index) at that time, when
\* the index the quantity was computed with is not above the ledger's.
C36_WithdrawWithinDeposit ==
  client.op = "withdrawQuantity" =>
    client.requested * IndexDen <= client.ledgerIndex * client.shares

\* the quantity is never more than the deposit as the client rounds it
C36_WithdrawWithinRoundedDeposit ==
  client.op = "withdrawQuantity" =>
    client.requested <= RoundDiv(client.scanIndex * client.shares, IndexDen)


\* C37: for an account that owes something (liabsVal > 0) and whose
\* assetsVal / liabsVal is below maintCollRatio, in a group with
\* maintCollRatio <= initCollRatio, liquidate is called with a quote
\* quantity above 0, and assetsVal plus that quantity is at least
\* liabsVal * initCollRatio.  (Quantities are kept times QtyDen.)
C37_DepositCoversDeficit ==
  (/\ client.op = "decide"
   /\ client.liabsVal > 0
   /\ client.assetsVal * RatioDen
        < client.mangoGroup.maintCollRatio * client.liabsVal) =>
    /\ client.liquidate
    /\ client.depositQuantities[QUOTE] > 0
    /\ client.assetsVal * QtyDen + client.depositQuantities[QUOTE]
         >= client.liabsVal * client.mangoGroup.initCollRatio
              * DepositMarginDen

\* an account just below a maintenance ratio that equals the initial ratio
C37_Witness ==
  /\ client.op = "decide"
  /\ client.liquidate
  /\ client.liabsVal > 0
  /\ client.mangoGroup.maintCollRatio = client.mangoGroup.initCollRatio
  /\ client.depositQuantities[QUOTE] > 0
  /\ client.depositQuantities[QUOTE] < QtyDen

\* the same for the liquidate calls of the coordinators
C37_SentDepositCoversDeficit ==
  \A l \in Liqors :
    proc[l].pc = "liquidate" =>
      /\ proc[l].depositQuantities[QUOTE] > 0
      /\ proc[l].eval.assetsVal * QtyDen + proc[l].depositQuantities[QUOTE]
           >= proc[l].eval.liabsVal * proc[l].mangoGroup.initCollRatio
                * DepositMarginDen


\* the orders of account a on market m that a coordinator has placed: all
\* but the orders of Init
PlacedOrders(a, m) == openOrders[a][m].orders \ RestingSell.orders

RatAbs(x) == Rat(Abs(x.num), x.den)

C39_AboveKinkWitness ==
  /\ client.op = "calculateInterest"
  /\ client.nativeTotalDeposits > client.nativeTotalBorrows
  /\ RatGt(Rat(client.nativeTotalBorrows, client.nativeTotalDeposits),
           optimalUtil)
  /\ RatGt(client.returned, optimalInterest)
  /\ RatGt(maxInterest, client.returned)

====
